---- MODULE Spec2Model ----
(***************************************************************************)
(* grey-seal: retrieval-augmented pipeline.                                *)
(*                                                                         *)
(* Two binaries share the library code:                                    *)
(*   "api"  (cmd/api)  : DuckDB vector store (documents table), Ollama     *)
(*                       embedding gateway with mock fallback, document    *)
(*                       processor, RAG service.                           *)
(*   "app"  (cmd/app)  : Postgres/pgvector store (resources,               *)
(*                       resource_embeddings, questions, question_         *)
(*                       responses, question_references), langchaingo      *)
(*                       embedder and LLM, resource and question services. *)
(*                                                                         *)
(* Every action is one whole call of a handler.  What the outside world    *)
(* answers during the call (embedding backend, LLM, scraper, database      *)
(* availability) is an input of the action, drawn with \E.  The variable   *)
(* `last` records what the call returned and which external calls it made. *)
(*                                                                         *)
(* Representation of values                                                *)
(*   text    : a sequence of tokens; the token " " is a run of whitespace, *)
(*             every other token is a word.                                *)
(*   vector  : [n, d, mock, seed].  n is the number of components.  A live *)
(*             vector (mock = FALSE) has the components d[1], d[2], 0, 0,  *)
(*             ... (only the first two may be non-zero).  A mock vector    *)
(*             (mock = TRUE) is the hash-generated fallback vector of the  *)
(*             text `seed`; its components are a function of seed alone.   *)
(*   error   : a string, "" is Go's nil error.                             *)
(***************************************************************************)
EXTENDS Integers, Sequences, FiniteSets, TLC

VARIABLES
  binary,               \* which program is running: "api" or "app"
  documents,            \* DuckDB table documents (PRIMARY KEY id)
  handles,              \* DuckDB: the connection, the database handle, the write-ahead log
  resources,            \* Postgres table resources (PRIMARY KEY uuid)
  resource_embeddings,  \* Postgres table resource_embeddings
  questions,            \* Postgres table questions (PRIMARY KEY uuid)
  question_responses,   \* Postgres table question_responses
  question_references,  \* Postgres table question_references
  last,                 \* history: the latest call, its result and its external calls
  delivered,            \* per consumer: the payloads the bus has delivered, in order
  cursor,               \* per consumer: how many of them the bus client has taken
  pc,                   \* per consumer: where its run loop is
  events,               \* per consumer, history: pipeline invocations started and returned
  minted,               \* number of identities uuid.New() has returned
  seen,                 \* history: the first fallback vector returned for each text
  ingest                \* the ResourceVectorRepo.Create in its insert loop, or None

busVars == <<delivered, cursor, pc, events, minted>>

vars == <<binary, documents, handles, resources, resource_embeddings, questions,
          question_responses, question_references, last, busVars, seen, ingest>>

duckVars == <<documents, handles>>
pgVars == <<resources, resource_embeddings, questions, question_responses,
            question_references>>

(***************************************************************************)
(* Bounds of the model                                                     *)
(***************************************************************************)
MaxFileChunks == 2      \* chunks of the largest file on disk
MaxChunks == 2          \* chunks the text splitter returns for a page
MaxMessages == 3        \* payloads the bus delivers to the consumers in all
MaxTextLen == 4         \* tokens of the longest text handed to ChunkText directly
MaxChunkSize == 3       \* largest maxWords handed to ChunkText directly
MaxBatch == 3           \* texts of the longest list handed to GenerateBatchEmbeddings
MaxK == 2               \* largest positive limit a caller passes to a search
MaxAttempts == 4         \* largest number of attempts handed to retryConn

(***************************************************************************)
(* Program constants                                                       *)
(***************************************************************************)
DuckDim == 768          \* embedding FLOAT[768]
PgDim == 384            \* embedding VECTOR(384)
MockDim == 384          \* make([]float32, 384)
DefaultLimit == 5       \* if limit <= 0 { limit = 5 }
MaxWords == 500         \* ChunkText(string(content), 500)
TopK == 5               \* srv.querier.Query(con, content, 5)
FallbackPassages == 2   \* contextTexts[:min(2, len(contextTexts))]
NewDatabaseAttempts == 3 \* retryConn(3, 10*time.Second, ...)

None == [none |-> TRUE]

min(a, b) == IF a < b THEN a ELSE b

(***************************************************************************)
(* Vectors and cosine distance                                             *)
(***************************************************************************)
Dirs == {<<1, 0>>, <<0, 1>>, <<-1, 0>>}

LiveVector(n, d) == [n |-> n, d |-> d, mock |-> FALSE, seed |-> <<>>]

EmptyVector == LiveVector(0, <<0, 0>>)

Dot(a, b) == a[1] * b[1] + a[2] * b[2]

SgnSq(x) == IF x < 0 THEN -(x * x) ELSE x * x

\* The cosine of the angle between a and q is sgn(a.q) * sqrt(|s| / m) for
\* s = sgn(a.q) * (a.q)^2 and m = |a|^2 |q|^2; the cosine distance is
\* 1 - cosine.  The pair [s, m] stands for the floating-point distance: the
\* distance is a strictly decreasing function of s / m.
CosineDistance(a, q) == [s |-> SgnSq(Dot(a.d, q.d)), m |-> Dot(a.d, a.d) * Dot(q.d, q.d)]

\* distance x <= distance y
DistLeq(x, y) == x.s * y.m >= y.s * x.m

DistLt(x, y) == x.s * y.m > y.s * x.m

(***************************************************************************)
(* lib/greyseal VectorToString and the ?::FLOAT[] cast                     *)
(***************************************************************************)
\* fmt.Sprintf("%f", v) prints six decimals: a component is printed as its
\* value in millionths.
VectorToString(vector) ==
  [n |-> vector.n, micro |-> <<vector.d[1] * 1000000, vector.d[2] * 1000000>>,
   mock |-> vector.mock, seed |-> vector.seed]

\* DuckDB's cast of the printed list back to FLOAT[]
CastFloatList(str) ==
  [n |-> str.n, d |-> <<str.micro[1] \div 1000000, str.micro[2] \div 1000000>>,
   mock |-> str.mock, seed |-> str.seed]

(***************************************************************************)
(* DuckDB backend: VectorDBImpl                                            *)
(***************************************************************************)
\* StoreDocument without the cast of the list to the column type FLOAT[768]:
\* a list of any length is stored.
StoreDocumentUnchecked(docs, doc, dbOk) ==
  LET emb == CastFloatList(VectorToString(doc.Vector))
      row == [id |-> doc.ID, content |-> doc.Content, file_path |-> doc.FilePath,
              chunk_id |-> doc.ChunkID, embedding |-> emb]
  IN IF ~dbOk THEN [docs |-> docs, err |-> "duckdb: exec failed"]
     ELSE [docs |-> {r \in docs : r.id # doc.ID} \cup {row}, err |-> ""]

\* StoreDocument with a plain insert that does not replace the row of the
\* same id.
StoreDocumentInsert(docs, doc, dbOk) ==
  LET emb == CastFloatList(VectorToString(doc.Vector))
      row == [id |-> doc.ID, content |-> doc.Content, file_path |-> doc.FilePath,
              chunk_id |-> doc.ChunkID, embedding |-> emb]
  IN IF ~dbOk THEN [docs |-> docs, err |-> "duckdb: exec failed"]
     ELSE IF emb.n # DuckDim THEN [docs |-> docs, err |-> "duckdb: cannot cast list to FLOAT[768]"]
     ELSE [docs |-> docs \cup {row}, err |-> ""]

\* INSERT OR REPLACE INTO documents ... VALUES (?, ?, ?, ?, ?::FLOAT[]).
\* The column is FLOAT[768]: a list of another length cannot be cast to it
\* and the statement fails.  dbOk: the connection executes the statement.
StoreDocument(docs, doc, dbOk) ==
  LET vectorStr == VectorToString(doc.Vector)
      emb == CastFloatList(vectorStr)
      row == [id |-> doc.ID, content |-> doc.Content, file_path |-> doc.FilePath,
              chunk_id |-> doc.ChunkID, embedding |-> emb]
  IN IF ~dbOk THEN [docs |-> docs, err |-> "duckdb: exec failed"]
     ELSE IF emb.n # DuckDim THEN [docs |-> docs, err |-> "duckdb: cannot cast list to FLOAT[768]"]
     ELSE [docs |-> {r \in docs : r.id # doc.ID} \cup {row}, err |-> ""]

RECURSIVE OrderedLimit(_, _, _)
\* ORDER BY ... LIMIT m over rows: the sequences of m rows (all rows if
\* there are fewer) a sort by the total preorder before, a set of pairs,
\* may yield.  The next row is any row that no remaining row precedes
\* strictly: rows of equal rank come in any order.
OrderedLimit(rows, m, before) ==
  IF m <= 0 \/ rows = {} THEN {<<>>}
  ELSE UNION {{<<r>> \o s : s \in OrderedLimit(rows \ {r}, m - 1, before)} :
                r \in {x \in rows : \A y \in rows : <<x, y>> \in before}}

SearchRow(r, q) ==
  [ID |-> r.id, Content |-> r.content, FilePath |-> r.file_path, ChunkID |-> r.chunk_id,
   Similarity |-> CosineDistance(r.embedding, q)]

\* SELECT ..., array_cosine_distance(embedding, ?::FLOAT[768]) as similarity
\* FROM documents ORDER BY similarity DESC LIMIT ?
\* The result is the set of result sequences the query may return.
SearchSimilar(docs, queryVector, limit, dbOk) ==
  LET lim == IF limit <= 0 THEN DefaultLimit ELSE limit
      q == CastFloatList(VectorToString(queryVector))
      desc == {p \in docs \X docs :
                 DistLeq(CosineDistance(p[2].embedding, q), CosineDistance(p[1].embedding, q))}
  IN IF ~dbOk \/ q.n # DuckDim
     THEN {[results |-> <<>>, err |-> "failed to search"]}
     ELSE {[results |-> [i \in DOMAIN s |-> SearchRow(s[i], q)], err |-> ""] :
             s \in OrderedLimit(docs, lim, desc)}

(***************************************************************************)
(* Embedding gateway                                                       *)
(***************************************************************************)
\* What the Ollama backend answers to one embedding request: kind "ok" with
\* an embedding (possibly an empty one), or a failure of the call
\* ("connect": connection error or timeout, "status": non-200 status,
\* "decode": undecodable body).
EmbedFailures == {"connect", "status", "decode"}

\* The embedding model is a fixed function of the text: the direction of
\* the vector it computes is chosen by the first token.
ModelDir(text) ==
  IF text = <<>> THEN <<-1, 0>>
  ELSE IF text[1] \in {"w", "c0"} THEN <<1, 0>>
  ELSE IF text[1] \in {"v", "c1"} THEN <<0, 1>>
  ELSE <<-1, 0>>

\* The answers the backend may give for text; the model answers with dim
\* components.
EmbedResps(text, dim) ==
  {[kind |-> k, embedding |-> EmptyVector] : k \in EmbedFailures}
    \cup {[kind |-> "ok", embedding |-> LiveVector(dim, ModelDir(text))],
          [kind |-> "ok", embedding |-> EmptyVector]}

\* The answers drawn inside a pipeline: the model's vector or a connection
\* failure.
PipelineResps(text, dim) ==
  {r \in EmbedResps(text, dim) : r.kind = "connect" \/ (r.kind = "ok" /\ r.embedding.n # 0)}

\* A fallback that kept the vector of the latest fallback call in a
\* package-level variable and returned it again.
MockGenerateEmbeddingCached(text) ==
  [vector |-> [n |-> MockDim, d |-> <<0, 0>>, mock |-> TRUE,
               seed |-> IF last.op = "MockEmbedding" THEN last.vector.seed ELSE text],
   err |-> ""]

\* DefaultMockOllamaEmbeddingService.GenerateEmbedding and
\* MockEmbeddingService.GenerateEmbedding: 384 components computed from
\* simpleHash(text), nil error.
MockGenerateEmbedding(text) ==
  [vector |-> [n |-> MockDim, d |-> <<0, 0>>, mock |-> TRUE, seed |-> text], err |-> ""]

\* OllamaEmbeddingServiceImpl.generateOllamaEmbedding
generateOllamaEmbedding(resp) ==
  IF resp.kind # "ok" THEN [vector |-> EmptyVector, err |-> "failed to generate embedding"]
  ELSE IF resp.embedding.n = 0 THEN [vector |-> EmptyVector, err |-> "empty embedding received"]
  ELSE [vector |-> resp.embedding, err |-> ""]

\* OllamaEmbeddingServiceImpl.GenerateEmbedding
GenerateEmbedding(text, resp) ==
  LET r == generateOllamaEmbedding(resp)
  IN IF r.err = "" THEN r ELSE MockGenerateEmbedding(text)

\* The state of the Ollama backend during a call: "up", or the way its
\* requests fail.
BackendStates == {"up"} \cup EmbedFailures

\* what a backend in state st answers to client.Embeddings for text
EmbeddingsAnswer(st, text, dim) ==
  IF st = "up" THEN [kind |-> "ok", embedding |-> LiveVector(dim, ModelDir(text))]
  ELSE [kind |-> st, embedding |-> EmptyVector]

\* what it answers to client.Embed for a list of texts: one embedding per
\* text
EmbedAnswer(st, texts, dim) ==
  IF st = "up"
  THEN [kind |-> "ok", embeddings |-> [i \in DOMAIN texts |-> LiveVector(dim, ModelDir(texts[i]))]]
  ELSE [kind |-> st, embeddings |-> <<>>]

\* OllamaEmbeddingServiceImpl.GenerateBatchEmbeddings
GenerateBatchEmbeddings(texts, resp) ==
  IF resp.kind # "ok" THEN [vectors |-> <<>>, err |-> "failed to generate batch embeddings"]
  ELSE IF Len(resp.embeddings) = 0 THEN [vectors |-> <<>>, err |-> "no embeddings received"]
  ELSE [vectors |-> resp.embeddings, err |-> ""]

\* EmbeddingServiceImpl.generateOllamaEmbedding (plain HTTP client); the
\* monolith's EmbeddingService.generateOllamaEmbedding is the same code.
httpGenerateOllamaEmbedding(resp) ==
  IF resp.kind = "connect" THEN [vector |-> EmptyVector, err |-> "failed to call Ollama"]
  ELSE IF resp.kind = "status" THEN [vector |-> EmptyVector, err |-> "Ollama returned status"]
  ELSE IF resp.kind = "decode" THEN [vector |-> EmptyVector, err |-> "failed to decode response"]
  ELSE [vector |-> resp.embedding, err |-> ""]

\* EmbeddingServiceImpl.GenerateEmbedding
httpGenerateEmbedding(text, resp) ==
  LET r == httpGenerateOllamaEmbedding(resp)
  IN IF r.err = "" THEN r ELSE MockGenerateEmbedding(text)

(***************************************************************************)
(* Chunker: lib/greyseal ChunkText                                         *)
(***************************************************************************)
IsWord(t) == t # " "

\* strings.Fields
Fields(text) == SelectSeq(text, IsWord)

\* strings.Join(words, " ")
Join(words) ==
  [i \in 1..(2 * Len(words) - 1) |-> IF i % 2 = 1 THEN words[(i + 1) \div 2] ELSE " "]

RECURSIVE ChunkLoop(_, _, _, _)
\* The loop of ChunkText if it kept whole chunks only and dropped a last
\* chunk of fewer than maxWords words.
ChunkLoopWholeOnly(words, i, maxWords, chunks) ==
  IF i + maxWords > Len(words) THEN chunks
  ELSE ChunkLoop(words, i + maxWords, maxWords,
                 Append(chunks, Join(SubSeq(words, i + 1, i + maxWords))))

\* for i := 0; i < len(words); i += maxWords { ... append ... }
ChunkLoop(words, i, maxWords, chunks) ==
  IF i >= Len(words) THEN chunks
  ELSE LET end == IF i + maxWords > Len(words) THEN Len(words) ELSE i + maxWords
       IN ChunkLoop(words, i + maxWords, maxWords, Append(chunks, Join(SubSeq(words, i + 1, end))))

ChunkText(text, maxWords) == ChunkLoop(Fields(text), 0, maxWords, <<>>)

(***************************************************************************)
(* Document processor: DocumentProcessorImpl.ProcessFile                   *)
(***************************************************************************)
\* A file path is <<directory, name>>; filepath.Base is the name.
Base(filePath) == filePath[2]

\* fmt.Sprintf("%s_chunk_%d", filepath.Base(filePath), i)
ChunkDocID(filePath, i) == <<Base(filePath), i>>

\* A text of nw words separated by single blanks; the last word is "v", the
\* others are "w".
TextOfWords(nw) ==
  [i \in 1..(2 * nw) |-> IF i % 2 = 0 THEN " " ELSE IF i = 2 * nw - 1 THEN "v" ELSE "w"]

\* The files on disk: the numbers of words each may hold when it is read
\* (d1/a.txt is edited between two runs).
WordsOnDisk ==
  (<<"d1", "a.txt">> :> {MaxWords * (MaxFileChunks - 1) + 1, 1})
    @@ (<<"d2", "a.txt">> :> {1})
    @@ (<<"d1", "b.txt">> :> {0})

FilePaths == DOMAIN WordsOnDisk

\* os.ReadFile of a readable file holding nw words
FileContent == [nw \in UNION {WordsOnDisk[p] : p \in FilePaths} |-> TextOfWords(nw)]

\* greyseal.ChunkText(string(content), 500), tabulated per content
FileChunks == [nw \in DOMAIN FileContent |-> ChunkText(FileContent[nw], MaxWords)]

Range(s) == {s[i] : i \in DOMAIN s}

\* One external call of a pipeline: its name, the chunk index it is for and
\* whether it succeeded.
Call(name, i, ok) == [call |-> name, i |-> i, ok |-> ok]

RECURSIVE ProcessChunks(_, _, _, _, _, _)
\* The loop of ProcessFile if it went on to the next chunk after a failed
\* StoreDocument instead of returning.
ProcessChunksContinue(acc, filePath, chunks, i, resps, dbOks) ==
  IF i >= Len(chunks) THEN acc
  ELSE
    LET chunk == chunks[i + 1]
        e == GenerateEmbedding(chunk, resps[i])
        doc == [ID |-> ChunkDocID(filePath, i), Content |-> chunk, FilePath |-> filePath,
                ChunkID |-> i, Vector |-> e.vector]
        st == StoreDocument(acc.docs, doc, dbOks[i])
        calls == acc.calls \o <<Call("embed", i, e.err = ""), Call("store", i, st.err = "")>>
    IN ProcessChunks([docs |-> st.docs, calls |-> calls,
                      err |-> IF st.err # "" THEN "failed to store document" ELSE acc.err],
                     filePath, chunks, i + 1, resps, dbOks)

\* The loop of ProcessFile from chunk index i on.  resps[i] is the embedding
\* backend's answer for chunk i, dbOks[i] tells whether the database executes
\* the insert of chunk i.  acc carries the table and the external calls made
\* so far.
ProcessChunks(acc, filePath, chunks, i, resps, dbOks) ==
  IF i >= Len(chunks) THEN [acc EXCEPT !.err = ""]
  ELSE
    LET chunk == chunks[i + 1]
        e == GenerateEmbedding(chunk, resps[i])
        doc == [ID |-> ChunkDocID(filePath, i), Content |-> chunk, FilePath |-> filePath,
                ChunkID |-> i, Vector |-> e.vector]
        st == StoreDocument(acc.docs, doc, dbOks[i])
        embedded == Append(acc.calls, Call("embed", i, e.err = ""))
    IN IF e.err # ""
       THEN [acc EXCEPT !.calls = embedded, !.err = "failed to generate embedding"]
       ELSE IF st.err # ""
       THEN [acc EXCEPT !.calls = Append(embedded, Call("store", i, FALSE)),
                        !.err = "failed to store document"]
       ELSE ProcessChunks([docs |-> st.docs, calls |-> Append(embedded, Call("store", i, TRUE)),
                           err |-> ""],
                          filePath, chunks, i + 1, resps, dbOks)

\* DocumentProcessorImpl.ProcessFile; read is what os.ReadFile answers:
\* whether it succeeds and the number of words of the content.
ProcessFile(docs, filePath, read, resps, dbOks) ==
  IF ~read.ok THEN [docs |-> docs, calls |-> <<>>, err |-> "failed to read file"]
  ELSE ProcessChunks([docs |-> docs, calls |-> <<>>, err |-> ""],
                     filePath, FileChunks[read.words], 0, resps, dbOks)

(***************************************************************************)
(* RAG service: RAGServiceImpl.Query                                       *)
(***************************************************************************)
\* fmt.Sprintf("From %s: %s", filepath.Base(result.FilePath), result.Content)
ContextText(result) == [from |-> Base(result.FilePath), content |-> result.Content]

\* RAGServiceImpl.Query from the search result on; llm is the generation
\* backend's answer [err, choices].
RAGAnswer(query, sr, llm) ==
  LET contextTexts == [i \in DOMAIN sr.results |-> ContextText(sr.results[i])]
      answer == IF llm.err
                THEN [fallback |-> TRUE, text |-> <<>>, query |-> query,
                      passages |-> SubSeq(contextTexts, 1, min(FallbackPassages, Len(contextTexts)))]
                ELSE [fallback |-> FALSE, text |-> llm.choices, query |-> query, passages |-> <<>>]
  IN [response |-> [Answer |-> answer, Context |-> sr.results], err |-> "",
      calls |-> <<Call("embed", 0, TRUE), Call("search", 0, TRUE),
                  Call("generate", 0, ~llm.err)>>]

NoResponse == [Answer |-> [fallback |-> FALSE, text |-> <<>>, query |-> <<>>, passages |-> <<>>],
               Context |-> <<>>]

\* RAGServiceImpl.Query if it answered from an empty result set when the
\* search fails.
RAGQueryEmptyOnError(docs, query, limit, resp, dbOk, llm) ==
  LET e == GenerateEmbedding(query, resp)
  IN {RAGAnswer(query, IF sr.err # "" THEN [results |-> <<>>, err |-> ""] ELSE sr, llm) :
        sr \in SearchSimilar(docs, e.vector, limit, dbOk)}

\* RAGServiceImpl.Query: the set of outcomes (one per order the search may
\* return).
RAGQuery(docs, query, limit, resp, dbOk, llm) ==
  LET e == GenerateEmbedding(query, resp)
  IN IF e.err # ""
     THEN {[response |-> NoResponse, err |-> "failed to generate query embedding",
            calls |-> <<Call("embed", 0, FALSE)>>]}
     ELSE {IF sr.err # ""
           THEN [response |-> NoResponse, err |-> "failed to search documents",
                 calls |-> <<Call("embed", 0, TRUE), Call("search", 0, FALSE)>>]
           ELSE RAGAnswer(query, sr, llm) :
             sr \in SearchSimilar(docs, e.vector, limit, dbOk)}

(***************************************************************************)
(* Inputs of the DuckDB binary                                             *)
(***************************************************************************)
Lens == {0, MockDim, DuckDim}

QueryVectors == {LiveVector(DuckDim, d) : d \in Dirs} \cup {LiveVector(MockDim, <<1, 0>>)}

Limits == (-1)..MaxK

ApiChunk(v) ==
  [ID |-> <<"q.txt", 0>>, Content |-> IF v.d = <<0, 1>> THEN <<"v">> ELSE <<"w">>,
   FilePath |-> <<"d1", "q.txt">>, ChunkID |-> 0, Vector |-> v]

\* chunks handed to StoreDocument directly
ApiChunks == {ApiChunk(LiveVector(n, d)) : n \in Lens \ {0}, d \in Dirs} \cup {ApiChunk(EmptyVector)}

Tokens == {"w", "v", " "}

\* texts handed to the embedding gateway directly
Texts == {<<>>} \cup {<<a>> : a \in Tokens} \cup {<<a, b>> : a, b \in Tokens}
           \cup {<<"w", " ", "v">>}

Impls == {"ollama", "http"}

\* texts handed to ChunkText directly: all sequences of words and blanks
ChunkTexts == UNION {[1..n -> Tokens] : n \in 0..MaxTextLen}

\* questions asked
Queries == {<<"w">>, <<"v", " ", "w">>}

RagLimits == {0, MaxK}

\* What the text-generation backend answers: an error or a list of choices.
LLMResps == {[err |-> TRUE, choices |-> <<>>], [err |-> FALSE, choices |-> <<"a1">>],
             [err |-> FALSE, choices |-> <<"a1", "a2">>]}

(***************************************************************************)
(* Actions of the DuckDB binary                                            *)
(***************************************************************************)
\* a statement that writes has been executed: the write-ahead log holds it
Written(calls) == \E c \in Range(calls) : c.call = "store" /\ c.ok

\* VectorDBImpl.Close.  ckOk, connOk, dbOk: CHECKPOINT, conn.Close and
\* db.Close succeed.  A failed CHECKPOINT is printed and Close goes on; a
\* failed conn.Close returns before db.Close.
Close(h, ckOk, connOk, dbOk) ==
  LET ck == [h EXCEPT !.closing = TRUE, !.wal = IF ckOk THEN "flushed" ELSE @]
  IN IF ~connOk
     THEN [handles |-> ck, calls |-> <<Call("checkpoint", 0, ckOk), Call("conn.Close", 0, FALSE)>>,
           err |-> "conn close failed"]
     ELSE IF ~dbOk
     THEN [handles |-> [ck EXCEPT !.conn = "released"],
           calls |-> <<Call("checkpoint", 0, ckOk), Call("conn.Close", 0, TRUE),
                       Call("db.Close", 0, FALSE)>>,
           err |-> "db close failed"]
     ELSE [handles |-> [ck EXCEPT !.conn = "released", !.db = "released"],
           calls |-> <<Call("checkpoint", 0, ckOk), Call("conn.Close", 0, TRUE),
                       Call("db.Close", 0, TRUE)>>,
           err |-> ""]

\* defer vdb.Close() of main: called once, when the program ends.
DoClose ==
  /\ binary = "api"
  /\ ~handles.closing
  /\ \E ckOk \in BOOLEAN, connOk \in BOOLEAN, dbOk \in BOOLEAN :
       LET res == Close(handles, ckOk, connOk, dbOk)
       IN /\ handles' = res.handles
          /\ last' = [op |-> "Close", calls |-> res.calls, err |-> res.err]
  /\ UNCHANGED <<busVars, seen, ingest, binary, documents, pgVars>>

DoStoreDocument ==
  /\ binary = "api"
  /\ ~handles.closing
  /\ \E doc \in ApiChunks, dbOk \in BOOLEAN :
       LET res == StoreDocument(documents, doc, dbOk)
       IN /\ documents' = res.docs
          /\ handles' = IF res.err = "" THEN [handles EXCEPT !.wal = "pending"] ELSE handles
          /\ last' = [op |-> "StoreDocument", doc |-> doc,
                      replaced |-> \E r \in documents : r.id = doc.ID, err |-> res.err]
  /\ UNCHANGED <<busVars, seen, ingest, binary, pgVars>>

DoSearchSimilar ==
  /\ binary = "api"
  /\ ~handles.closing
  /\ \E q \in QueryVectors, limit \in Limits, dbOk \in BOOLEAN :
       \E res \in SearchSimilar(documents, q, limit, dbOk) :
         last' = [op |-> "SearchSimilar", q |-> q, limit |-> limit, dbOk |-> dbOk,
                  results |-> res.results, err |-> res.err]
  /\ UNCHANGED <<busVars, seen, ingest, binary, duckVars, pgVars>>

\* One call of the embedding gateway; impl selects the implementation.
DoGenerateEmbedding ==
  /\ binary = "api"
  /\ \E impl \in Impls, text \in Texts :
       \E resp \in EmbedResps(text, DuckDim) :
         LET r == IF impl = "ollama" THEN GenerateEmbedding(text, resp)
                  ELSE httpGenerateEmbedding(text, resp)
         IN last' = [op |-> "GenerateEmbedding", impl |-> impl, text |-> text, resp |-> resp,
                     vector |-> r.vector, err |-> r.err]
  /\ UNCHANGED <<busVars, seen, ingest, binary, duckVars, pgVars>>

(***************************************************************************)
(* Document processor: ProcessDirectory                                    *)
(***************************************************************************)
\* The files filepath.Walk may meet below the root, in the lexical order in
\* which it visits them: the files of FilePaths and one that is no text
\* file.
WalkOrder == <<<<"d1", "a.txt">>, <<"d1", "b.txt">>, <<"d1", "n.md">>, <<"d2", "a.txt">>>>

\* !info.IsDir() && strings.HasSuffix(strings.ToLower(info.Name()), ".txt")
IsTxt(path) == Base(path) \in {"a.txt", "b.txt"}

RECURSIVE Walk(_, _, _, _, _)
\* filepath.Walk with the callback of ProcessDirectory, from the k-th file
\* of the walk order on: an error handed to the callback or returned by
\* ProcessFile ends the walk; a file that is no .txt file is skipped.
\* tree is the set of files present below the root, words what each file
\* holds during the walk.  fail is what goes wrong: nothing, or one failure
\* at one file: the walk cannot stat it ("walk"), it cannot be read
\* ("read"), the embedding backend is down for its first chunk ("embed"),
\* or the database rejects its first insert ("store").
Walk(acc, tree, k, words, fail) ==
  IF k > Len(WalkOrder) THEN acc
  ELSE
    LET path == WalkOrder[k]
        failsAt(a) == fail = [path |-> path, at |-> a]
        chunks == FileChunks[words[path]]
        \* the answers ProcessFile gets for the file
        read == [ok |-> ~failsAt("read"), words |-> words[path]]
        resps == [i \in 0..(Len(chunks) - 1) |->
                    IF failsAt("embed") /\ i = 0
                    THEN [kind |-> "connect", embedding |-> EmptyVector]
                    ELSE [kind |-> "ok",
                          embedding |-> LiveVector(DuckDim, ModelDir(chunks[i + 1]))]]
        dbOks == [i \in 0..(Len(chunks) - 1) |-> ~(failsAt("store") /\ i = 0)]
        res == ProcessFile(acc.docs, path, read, resps, dbOks)
    IN IF path \notin tree THEN Walk(acc, tree, k + 1, words, fail)
       ELSE IF failsAt("walk")
       THEN [acc EXCEPT !.err = "lstat failed"]
       ELSE IF ~IsTxt(path) THEN Walk(acc, tree, k + 1, words, fail)
       ELSE IF res.err # ""
       THEN [docs |-> res.docs, calls |-> acc.calls \o res.calls,
             processed |-> acc.processed, err |-> res.err]
       ELSE Walk([docs |-> res.docs, calls |-> acc.calls \o res.calls,
                  processed |-> Append(acc.processed, path), err |-> ""],
                 tree, k + 1, words, fail)

\* DocumentProcessorImpl.ProcessDirectory
ProcessDirectory(docs, tree, words, fail) ==
  Walk([docs |-> docs, calls |-> <<>>, processed |-> <<>>, err |-> ""], tree, 1, words, fail)

DoProcessDirectory ==
  /\ binary = "api"
  /\ ~handles.closing
  /\ \E tree \in SUBSET Range(WalkOrder),
        words \in {c \in [FilePaths -> DOMAIN FileContent] :
                     \A p \in FilePaths : c[p] \in WordsOnDisk[p]},
        fail \in {None} \cup {[path |-> p, at |-> a] :
                                p \in Range(WalkOrder),
                                a \in {"walk", "read", "embed", "store"}} :
       LET res == ProcessDirectory(documents, tree, words, fail)
       IN \* a failure at a file that is not in the tree, or behind the
          \* walk, does not happen
          /\ fail # None => fail.path \in tree
          /\ (fail # None /\ fail.at # "walk") => IsTxt(fail.path)
          /\ (fail # None /\ fail.at \in {"embed", "store"})
               => Len(FileChunks[words[fail.path]]) > 0
          /\ documents' = res.docs
          /\ handles' = IF Written(res.calls) THEN [handles EXCEPT !.wal = "pending"]
                        ELSE handles
          /\ last' = [op |-> "ProcessDirectory", tree |-> tree, words |-> words,
                      fail |-> fail, processed |-> res.processed, err |-> res.err]
  /\ UNCHANGED <<busVars, seen, ingest, binary, pgVars>>

\* The handler of POST /search of RestHandlerImpl.SetupRoutes: it calls
\* RAGService.Query with the limit as sent and answers with the Context of
\* the response.  bindOk: the body is a RAGRequest.
RestSearch(docs, bindOk, query, limit, resp, dbOk, llm) ==
  IF ~bindOk THEN {[status |-> 400, results |-> <<>>, calls |-> <<>>]}
  ELSE {IF res.err # "" THEN [status |-> 500, results |-> <<>>, calls |-> res.calls]
        ELSE [status |-> 200, results |-> res.response.Context, calls |-> res.calls] :
          res \in RAGQuery(docs, query, limit, resp, dbOk, llm)}

\* The handler of POST /search of the monolith's setupRoutes: it embeds the
\* query with a new EmbeddingService and calls vectorDB.SearchSimilar.
MonolithSearch(docs, bindOk, query, limit, resp, dbOk, llm) ==
  IF ~bindOk THEN {[status |-> 400, results |-> <<>>, calls |-> <<>>]}
  ELSE LET e == httpGenerateEmbedding(query, resp)
       IN IF e.err # ""
          THEN {[status |-> 500, results |-> <<>>, calls |-> <<Call("embed", 0, FALSE)>>]}
          ELSE {IF sr.err # ""
                THEN [status |-> 500, results |-> <<>>,
                      calls |-> <<Call("embed", 0, TRUE), Call("search", 0, FALSE)>>]
                ELSE [status |-> 200, results |-> sr.results,
                      calls |-> <<Call("embed", 0, TRUE), Call("search", 0, TRUE)>>] :
                  sr \in SearchSimilar(docs, e.vector, limit, dbOk)}

\* The handler of POST /query (both programs): a limit of 0 becomes 5, then
\* RAGService.Query.
QueryRoute(docs, bindOk, query, limit, resp, dbOk, llm) ==
  IF ~bindOk THEN {[status |-> 400, results |-> <<>>, calls |-> <<>>]}
  ELSE {IF res.err # "" THEN [status |-> 500, results |-> <<>>, calls |-> res.calls]
        ELSE [status |-> 200, results |-> res.response.Context, calls |-> res.calls] :
          res \in RAGQuery(docs, query, IF limit = 0 THEN DefaultLimit ELSE limit, resp, dbOk, llm)}

Handlers == {"RestHandlerImpl", "monolith"}

DoSearchRoute ==
  /\ binary = "api"
  /\ ~handles.closing
  /\ \E h \in Handlers, bindOk \in BOOLEAN, query \in Queries, limit \in RagLimits,
        dbOk \in BOOLEAN, llm \in LLMResps :
       \E resp \in PipelineResps(query, DuckDim) :
         \E res \in IF h = "monolith"
                    THEN MonolithSearch(documents, bindOk, query, limit, resp, dbOk, llm)
                    ELSE RestSearch(documents, bindOk, query, limit, resp, dbOk, llm) :
           last' = [op |-> "POST /search", handler |-> h, bindOk |-> bindOk, query |-> query,
                    status |-> res.status, results |-> res.results, calls |-> res.calls,
                    err |-> IF res.status = 200 THEN "" ELSE "error"]
  /\ UNCHANGED <<busVars, seen, ingest, binary, duckVars, pgVars>>

DoQueryRoute ==
  /\ binary = "api"
  /\ ~handles.closing
  /\ \E h \in Handlers, bindOk \in BOOLEAN, query \in Queries, limit \in RagLimits,
        dbOk \in BOOLEAN, llm \in LLMResps :
       \E resp \in PipelineResps(query, DuckDim) :
         \E res \in QueryRoute(documents, bindOk, query, limit, resp, dbOk, llm) :
           last' = [op |-> "POST /query", handler |-> h, bindOk |-> bindOk, query |-> query,
                    status |-> res.status, results |-> res.results, calls |-> res.calls,
                    err |-> IF res.status = 200 THEN "" ELSE "error"]
  /\ UNCHANGED <<busVars, seen, ingest, binary, duckVars, pgVars>>

\* texts handed to the fallback embedding directly
MockTexts == {<<>>, <<"w">>, <<"v">>, <<"w", " ", "v">>}

\* DefaultMockOllamaEmbeddingService{}.GenerateEmbedding(text) and
\* MockEmbeddingService{}.GenerateEmbedding(text), called directly.
DoMockEmbedding ==
  /\ binary = "api"
  /\ \E text \in MockTexts :
       LET r == MockGenerateEmbedding(text)
       IN /\ last' = [op |-> "MockEmbedding", text |-> text,
                      again |-> \E s \in seen : s.text = text,
                      vector |-> r.vector, err |-> r.err]
          /\ seen' = IF \E s \in seen : s.text = text THEN seen
                     ELSE seen \cup {[text |-> text, vector |-> r.vector]}
  /\ UNCHANGED <<busVars, ingest, binary, duckVars, pgVars>>

\* lists of texts handed to GenerateBatchEmbeddings
TextLists == UNION {[1..n -> {<<>>, <<"w">>, <<"v", " ", "w">>}] : n \in 0..MaxBatch}

DoGenerateBatchEmbeddings ==
  /\ binary = "api"
  /\ \E texts \in TextLists, st \in BackendStates :
       LET r == GenerateBatchEmbeddings(texts, EmbedAnswer(st, texts, DuckDim))
       IN last' = [op |-> "GenerateBatchEmbeddings", texts |-> texts, backend |-> st,
                   vectors |-> r.vectors, err |-> r.err]
  /\ UNCHANGED <<busVars, seen, ingest, binary, duckVars, pgVars>>

DoProcessFile ==
  /\ binary = "api"
  /\ ~handles.closing
  /\ \E filePath \in FilePaths, readOk \in BOOLEAN :
     \E words \in IF readOk THEN WordsOnDisk[filePath] ELSE {0} :
       LET chunks == FileChunks[words]
           n == IF readOk THEN Len(chunks) ELSE 0
           All == UNION {PipelineResps(chunks[i + 1], DuckDim) : i \in 0..(n - 1)}
       IN \E resps \in [0..(n - 1) -> All], dbOks \in [0..(n - 1) -> BOOLEAN] :
            /\ \A i \in 0..(n - 1) : resps[i] \in PipelineResps(chunks[i + 1], DuckDim)
            \* answers never asked for, after the call has failed, are fixed
            /\ \A i \in 0..(n - 1) :
                 /\ resps[i].kind # "ok" => dbOks[i]
                 /\ (\E j \in 0..(i - 1) : resps[j].kind # "ok" \/ ~dbOks[j])
                      => (resps[i].kind = "ok" /\ dbOks[i])
            /\ LET res == ProcessFile(documents, filePath, [ok |-> readOk, words |-> words],
                                      resps, dbOks)
               IN /\ documents' = res.docs
                  /\ handles' = IF Written(res.calls) THEN [handles EXCEPT !.wal = "pending"]
                                 ELSE handles
                  /\ last' = [op |-> "ProcessFile", filePath |-> filePath, nchunks |-> n,
                              words |-> words,
                              resps |-> resps, calls |-> res.calls, err |-> res.err]
  /\ UNCHANGED <<busVars, seen, ingest, binary, pgVars>>

DoChunkText ==
  /\ \E text \in ChunkTexts, maxWords \in 1..MaxChunkSize :
       last' = [op |-> "ChunkText", text |-> text, maxWords |-> maxWords,
                chunks |-> ChunkText(text, maxWords), err |-> ""]
  /\ UNCHANGED <<busVars, seen, ingest, binary, duckVars, pgVars>>

DoRAGQuery ==
  /\ binary = "api"
  /\ ~handles.closing
  /\ \E query \in Queries, limit \in RagLimits, dbOk \in BOOLEAN, llm \in LLMResps :
       \E resp \in PipelineResps(query, DuckDim) :
         \E res \in RAGQuery(documents, query, limit, resp, dbOk, llm) :
           last' = [op |-> "RAGQuery", query |-> query, llmErr |-> llm.err,
                    searchFailed |->
                      \A sr \in SearchSimilar(documents, GenerateEmbedding(query, resp).vector,
                                               limit, dbOk) : sr.err # "",
                    response |-> res.response, calls |-> res.calls, err |-> res.err]
  /\ UNCHANGED <<busVars, seen, ingest, binary, duckVars, pgVars>>

(***************************************************************************)
(* Postgres backend: ResourceRepo, ResourceVectorRepo                      *)
(***************************************************************************)
\* ResourceRepo.Create: INSERT INTO resources; uuid is the primary key.
ResourceRepoCreate(res, b, dbOk) ==
  IF ~dbOk THEN [resources |-> res, err |-> "pq: exec failed"]
  ELSE IF \E r \in res : r.uuid = b.Uuid
  THEN [resources |-> res, err |-> "pq: duplicate key value violates unique constraint"]
  ELSE [resources |-> res \cup {[uuid |-> b.Uuid, source |-> b.Source, path |-> b.Path]},
        err |-> ""]

\* Delete on a schema whose foreign keys did not cascade and were not
\* enforced: the resources row alone goes
ResourceRepoDeleteRowOnly(res, rows, refs, id, dbOk) ==
  IF ~dbOk THEN [resources |-> res, rows |-> rows, references |-> refs, err |-> "pq: exec failed"]
  ELSE [resources |-> {r \in res : r.uuid # id}, rows |-> rows, references |-> refs, err |-> ""]

\* ResourceRepo.Delete: DELETE FROM resources WHERE uuid = id.  The rows of
\* resource_embeddings and question_references that reference the resource
\* go with it (ON DELETE CASCADE); deleting an unknown id deletes nothing
\* and is no error.
ResourceRepoDelete(res, rows, refs, id, dbOk) ==
  IF ~dbOk THEN [resources |-> res, rows |-> rows, references |-> refs, err |-> "pq: exec failed"]
  ELSE [resources |-> {r \in res : r.uuid # id},
        rows |-> {r \in rows : r.resource_uuid # id},
        references |-> {r \in refs : r.resource_uuid # id},
        err |-> ""]

\* LoadWebsite if it scraped the page once more after a failed scrape
LoadWebsiteRetry(b, load) ==
  IF b.Path # "" /\ load = "scrape-error"
  THEN [docs |-> <<>>, err |-> "scrape failed",
        calls |-> <<Call("scrape", 0, FALSE), Call("scrape", 0, FALSE)>>]
  ELSE IF b.Path = "" THEN [docs |-> <<>>, err |-> "path must be set for website resource", calls |-> <<>>]
  ELSE IF load = "load-error"
  THEN [docs |-> <<>>, err |-> "html load failed",
        calls |-> <<Call("scrape", 0, TRUE), Call("load", 0, FALSE)>>]
  ELSE [docs |-> IF load = "page" THEN <<"page">> ELSE <<>>, err |-> "",
        calls |-> <<Call("scrape", 0, TRUE), Call("load", 0, TRUE)>>]

\* ResourceVectorRepo.LoadWebsite; load is what the scraper and the HTML
\* loader answer: "scrape-error", "load-error", "no-docs" or "page".
LoadWebsite(b, load) ==
  IF b.Path = "" THEN [docs |-> <<>>, err |-> "path must be set for website resource", calls |-> <<>>]
  ELSE IF load = "scrape-error"
  THEN [docs |-> <<>>, err |-> "scrape failed", calls |-> <<Call("scrape", 0, FALSE)>>]
  ELSE IF load = "load-error"
  THEN [docs |-> <<>>, err |-> "html load failed",
        calls |-> <<Call("scrape", 0, TRUE), Call("load", 0, FALSE)>>]
  ELSE [docs |-> IF load = "page" THEN <<"page">> ELSE <<>>, err |-> "",
        calls |-> <<Call("scrape", 0, TRUE), Call("load", 0, TRUE)>>]

\* The chunk texts the splitter cuts a page into.
ChunkToken(i) == IF i = 0 THEN "c0" ELSE IF i = 1 THEN "c1" ELSE "c2"

\* splitter.SplitText(docs[0].PageContent); split is the number of chunks
\* the splitter returns, -1 if it fails.
SplitText(page, split) ==
  IF split < 0 THEN [chunks |-> <<>>, err |-> "split failed"]
  ELSE [chunks |-> [i \in 1..split |-> <<ChunkToken(i - 1)>>], err |-> ""]

\* What the embedding backend of the langchaingo embedder answers: "err"
\* (unavailable), "ok" (all-minilm, 384 components) or "wrongdim" (a model
\* with 768 components).
PgEmbedAnswers == {"err", "ok", "wrongdim"}

PgEmbedding(text, answer) ==
  LiveVector(IF answer = "ok" THEN PgDim ELSE DuckDim, ModelDir(text))

\* Embedder.EmbedDocuments: no request is sent for an empty list.
EmbedDocuments(texts, answer) ==
  IF Len(texts) = 0 THEN [vectors |-> <<>>, err |-> ""]
  ELSE IF answer = "err" THEN [vectors |-> <<>>, err |-> "embedding backend unavailable"]
  ELSE [vectors |-> [i \in DOMAIN texts |-> PgEmbedding(texts[i], answer)], err |-> ""]

\* Embedder.EmbedQuery
EmbedQuery(text, answer) ==
  IF answer = "err" THEN [vector |-> EmptyVector, err |-> "embedding backend unavailable"]
  ELSE [vector |-> PgEmbedding(text, answer), err |-> ""]

\* INSERT INTO resource_embeddings (resource_uuid, chunk_index, content,
\* embedding).  The column is VECTOR(384): a vector of another dimension is
\* rejected.  resource_uuid references resources(uuid).
InsertEmbedding(rows, res, uuid, i, content, vect, dbOk) ==
  IF ~dbOk THEN [rows |-> rows, err |-> "pq: exec failed"]
  ELSE IF vect.n # PgDim THEN [rows |-> rows, err |-> "pq: expected 384 dimensions"]
  ELSE IF ~\E r \in res : r.uuid = uuid
  THEN [rows |-> rows, err |-> "pq: violates foreign key constraint"]
  ELSE [rows |-> rows \cup {[resource_uuid |-> uuid, chunk_index |-> i, content |-> content,
                             embedding |-> vect]},
        err |-> ""]

RECURSIVE StoreEmbeddings(_, _, _, _, _, _, _)
\* for i, embedding := range embeddings { insert; if err != nil { return err } }
StoreEmbeddings(acc, res, b, chunks, embeddings, i, dbOks) ==
  IF i >= Len(embeddings) THEN [acc EXCEPT !.err = ""]
  ELSE
    LET ins == InsertEmbedding(acc.rows, res, b.Uuid, i, chunks[i + 1], embeddings[i + 1], dbOks[i])
    IN IF ins.err # ""
       THEN [acc EXCEPT !.calls = Append(acc.calls, Call("store", i, FALSE)), !.err = ins.err]
       ELSE StoreEmbeddings([rows |-> ins.rows, calls |-> Append(acc.calls, Call("store", i, TRUE)),
                             err |-> ""],
                            res, b, chunks, embeddings, i + 1, dbOks)

\* ResourceVectorRepo.Create from the loaded documents on.
IngestDocs(res, rows, b, docs, calls, env) ==
  LET sp == SplitText(docs[1], env.split)
      em == EmbedDocuments(sp.chunks, env.embed)
      embedCalls == IF Len(sp.chunks) = 0 THEN <<>> ELSE <<Call("embed", 0, em.err = "")>>
  IN IF sp.err # ""
     THEN [resources |-> res, rows |-> rows, calls |-> Append(calls, Call("split", 0, FALSE)),
           err |-> sp.err]
     ELSE IF em.err # ""
     THEN [resources |-> res, rows |-> rows,
           calls |-> Append(calls, Call("split", 0, TRUE)) \o embedCalls, err |-> em.err]
     ELSE LET st == StoreEmbeddings([rows |-> rows,
                                     calls |-> Append(calls, Call("split", 0, TRUE)) \o embedCalls,
                                     err |-> ""],
                                    res, b, sp.chunks, em.vectors, 0, env.dbOks)
          IN [resources |-> res, rows |-> st.rows, calls |-> st.calls, err |-> st.err]

\* ResourceVectorRepo.Create if it went on to split, embed and store when
\* the loader has returned no document
ResourceVectorRepoCreateEmptyPage(res, rows, b, env) ==
  LET rc == ResourceRepoCreate(res, b, env.repoOk)
      calls == <<Call("record", 0, rc.err = "")>>
  IN IF rc.err # ""
     THEN [resources |-> res, rows |-> rows, calls |-> calls, err |-> rc.err]
     ELSE IngestDocs(rc.resources, rows, b, <<"page">>, calls, env)

\* ResourceVectorRepo.Create
ResourceVectorRepoCreate(res, rows, b, env) ==
  LET rc == ResourceRepoCreate(res, b, env.repoOk)
      ld == IF b.Source = "SOURCE_WEBSITE" THEN LoadWebsite(b, env.load)
            ELSE [docs |-> <<>>, err |-> "", calls |-> <<>>]
      calls == <<Call("record", 0, rc.err = "")>>
  IN IF rc.err # ""
     THEN [resources |-> res, rows |-> rows, calls |-> calls, err |-> rc.err]
     ELSE IF ld.err # ""
     THEN [resources |-> rc.resources, rows |-> rows, calls |-> calls \o ld.calls,
           err |-> "unable to parse content"]
     ELSE IF Len(ld.docs) = 0
     THEN [resources |-> rc.resources, rows |-> rows, calls |-> calls \o ld.calls, err |-> ""]
     ELSE IngestDocs(rc.resources, rows, b, ld.docs, calls \o ld.calls, env)

QueryResult(r) == [ResourceUUID |-> r.resource_uuid, Content |-> r.content]

\* ResourceVectorRepo.Query:
\* SELECT resource_uuid, content from resource_embeddings
\*   ORDER BY embedding <=> $1 LIMIT $2
\* Postgres rejects a negative LIMIT and pgvector a vector whose dimension
\* differs from the column's.  The result is the set of outcomes the query
\* may have.
Query(rows, query, limit, answer, dbOk) ==
  LET e == EmbedQuery(query, answer)
      asc == {p \in rows \X rows :
                DistLeq(CosineDistance(p[1].embedding, e.vector),
                        CosineDistance(p[2].embedding, e.vector))}
  IN IF e.err # "" THEN {[results |-> <<>>, err |-> e.err, calls |-> <<Call("embed", 0, FALSE)>>]}
     ELSE IF ~dbOk \/ limit < 0 \/ e.vector.n # PgDim
     THEN {[results |-> <<>>, err |-> "pq: query failed",
            calls |-> <<Call("embed", 0, TRUE), Call("search", 0, FALSE)>>]}
     ELSE {[results |-> [i \in DOMAIN s |-> QueryResult(s[i])], err |-> "",
            calls |-> <<Call("embed", 0, TRUE), Call("search", 0, TRUE)>>] :
             s \in OrderedLimit(rows, limit, asc)}

(***************************************************************************)
(* Postgres backend: QuestionRepo, questionService                         *)
(***************************************************************************)
\* QuestionRepo.Create: INSERT INTO questions; uuid is the primary key.
QuestionRepoCreate(qs, q, dbOk) ==
  IF ~dbOk THEN [questions |-> qs, err |-> "pq: exec failed"]
  ELSE IF \E x \in qs : x.uuid = q.Uuid
  THEN [questions |-> qs, err |-> "pq: duplicate key value violates unique constraint"]
  ELSE [questions |-> qs \cup {[uuid |-> q.Uuid, role_description |-> q.RoleDescription,
                                content |-> q.Content]},
        err |-> ""]

\* QuestionRepo.SaveResponse.  The response row is inserted first.  The loop
\* over references assigns a new one-row insert to builder in every
\* iteration, so the statement executed after the loop inserts the last
\* reference only; with no reference it is the empty builder, which has no
\* table and cannot be executed.
SaveResponse(resps, refs, questionUUID, response, references, dbOk1, dbOk2) ==
  IF ~dbOk1 THEN [responses |-> resps, references |-> refs, err |-> "pq: exec failed"]
  ELSE
    LET saved == resps \cup {[question_uuid |-> questionUUID, response |-> response]}
    IN IF Len(references) = 0
       THEN [responses |-> saved, references |-> refs,
             err |-> "insert statements must specify a table"]
       ELSE IF ~dbOk2
       THEN [responses |-> saved, references |-> refs, err |-> "pq: exec failed"]
       ELSE [responses |-> saved,
             references |-> refs \cup {[question_uuid |-> questionUUID,
                                        resource_uuid |-> references[Len(references)]]},
             err |-> ""]

\* the sequences that list every element of S once
Perms(S) ==
  {s \in [1..Cardinality(S) -> S] : \A i, j \in 1..Cardinality(S) : i # j => s[i] # s[j]}

\* references built with one entry per retrieved chunk, without the set
ReferencesPerChunk(contexts) == {[i \in DOMAIN contexts |-> contexts[i].ResourceUUID]}

\* referencesSet[ctx.ResourceUUID] = nil for every context, then the keys of
\* the map in the order the range yields them: any order.
References(contexts) == Perms({contexts[i].ResourceUUID : i \in DOMAIN contexts})

RECURSIVE Concat(_, _)
\* answers.WriteString(choice.Content); answers.WriteString("\n")
Concat(choices, i) ==
  IF i > Len(choices) THEN <<>> ELSE <<choices[i], "\n">> \o Concat(choices, i + 1)

NoAnswer == [Uuid |-> "", Message |-> <<>>, References |-> <<>>]

\* questionService.Create if it ignored the error of GenerateContent and
\* went on with the empty completion.
AnswerQuestionIgnoringError(t, q, contexts, references, calls, env) ==
  LET message == Concat(env.llm.choices, 1)
      sv == SaveResponse(t.responses, t.references, q.Uuid, message, references,
                         env.saveOk1, env.saveOk2)
  IN [t EXCEPT !.responses = sv.responses, !.references = sv.references,
               !.calls = calls \o <<Call("generate", 0, ~env.llm.err),
                                    Call("save", 0, sv.err = "")>>,
               !.answer = [Uuid |-> q.Uuid, Message |-> message, References |-> references],
               !.err = IF sv.err # "" THEN "failed to save response" ELSE ""]

\* questionService.Create from the retrieved contexts on; references is the
\* order in which the range over referencesSet yields the keys.
AnswerQuestion(t, q, contexts, references, calls, env) ==
  LET message == Concat(env.llm.choices, 1)
      sv == SaveResponse(t.responses, t.references, q.Uuid, message, references,
                         env.saveOk1, env.saveOk2)
  IN IF env.llm.err
     THEN [t EXCEPT !.calls = Append(calls, Call("generate", 0, FALSE)),
                    !.err = "failed to generate answer"]
     ELSE IF sv.err # ""
     THEN [t EXCEPT !.responses = sv.responses, !.references = sv.references,
                    !.calls = calls \o <<Call("generate", 0, TRUE), Call("save", 0, FALSE)>>,
                    !.err = "failed to save response"]
     ELSE [t EXCEPT !.responses = sv.responses, !.references = sv.references,
                    !.calls = calls \o <<Call("generate", 0, TRUE), Call("save", 0, TRUE)>>,
                    !.answer = [Uuid |-> q.Uuid, Message |-> message, References |-> references],
                    !.err = ""]

\* questionService.Create: the set of outcomes, one per order the similarity
\* query may return and per iteration order of the references map.
QuestionCreate(qs, resps, refs, rows, q, env) ==
  LET qc == QuestionRepoCreate(qs, q, env.repoOk)
      t0 == [questions |-> qc.questions, responses |-> resps, references |-> refs,
             contexts |-> <<>>, answer |-> NoAnswer,
             calls |-> <<Call("record", 0, qc.err = "")>>, err |-> qc.err]
  IN IF qc.err # "" THEN {t0}
     ELSE UNION {
       IF qr.err # ""
       THEN {[t0 EXCEPT !.calls = t0.calls \o qr.calls, !.err = "failed to query contexts"]}
       ELSE {AnswerQuestion([t0 EXCEPT !.contexts = qr.results], q, qr.results, references,
                            t0.calls \o qr.calls, env) :
               references \in References(qr.results)} :
         qr \in Query(rows, q.Content, TopK, env.embed, env.queryOk)}

(***************************************************************************)
(* Inputs of the Postgres binary                                           *)
(***************************************************************************)
ResourceInputs ==
  {[Uuid |-> "r1", Source |-> "SOURCE_WEBSITE", Path |-> "u"],
   [Uuid |-> "r2", Source |-> "SOURCE_WEBSITE", Path |-> "u"],
   [Uuid |-> "r2", Source |-> "SOURCE_WEBSITE", Path |-> ""],
   [Uuid |-> "r2", Source |-> "SOURCE_PDF", Path |-> "p"]}

LoadOutcomes == {"scrape-error", "load-error", "no-docs", "page"}

\* What the outside world answers during one ResourceVectorRepo.Create.  An
\* answer that is never asked for (the call has failed before) is fixed to a
\* default value.
CreateEnvs ==
  UNION {
    {e \in [repoOk : BOOLEAN, load : LoadOutcomes, split : {n}, embed : PgEmbedAnswers,
            dbOks : [0..(n - 1) -> BOOLEAN]] :
       /\ ~e.repoOk => e.load = "page"
       /\ (~e.repoOk \/ e.load # "page") => e.split = 0
       /\ e.split <= 0 => e.embed = "ok"
       /\ e.embed = "err" => \A i \in 0..(n - 1) : e.dbOks[i]} :
    n \in (-1)..MaxChunks}

QuestionInputs ==
  {[Uuid |-> "q1", RoleDescription |-> "role", Content |-> c] : c \in Queries}

\* What the outside world answers during one questionService.Create, with
\* the same convention.
QuestionEnvs ==
  {e \in [repoOk : BOOLEAN, embed : PgEmbedAnswers, queryOk : BOOLEAN, llm : LLMResps,
          saveOk1 : BOOLEAN, saveOk2 : BOOLEAN] :
     /\ ~e.repoOk => e.embed = "ok"
     /\ (~e.repoOk \/ e.embed # "ok") => e.queryOk
     /\ (~e.repoOk \/ e.embed # "ok" \/ ~e.queryOk) => e.llm = [err |-> FALSE, choices |-> <<"a1">>]
     /\ (~e.repoOk \/ e.embed # "ok" \/ ~e.queryOk \/ e.llm.err) => e.saveOk1
     /\ ~e.saveOk1 => e.saveOk2}

(***************************************************************************)
(* Cancellation of the caller's context                                    *)
(***************************************************************************)
\* The external calls of the two pipelines, in the order the code makes them.
ResourceStages == <<"record", "scrape", "load", "embed", "store">>

QuestionStages == <<"record", "embed", "search", "generate", "save">>

\* position of the call named name in stages
StageIndex(stages, name) == CHOOSE k \in DOMAIN stages : stages[k] = name

\* The calls that are handed the context of the caller.  In
\* ResourceVectorRepo.Create only ScrapeContent(ctx, ...) is: the inserts
\* run with Exec(), loader.Load and EmbedDocuments with
\* context.Background().  In questionService.Create EmbedQuery,
\* QueryContext and GenerateContent are; QuestionRepo.Create and
\* SaveResponse run with Exec().
TakesCallerContext(stages) ==
  IF stages = ResourceStages THEN {"scrape"} ELSE {"embed", "search", "generate"}

\* The answers a ResourceVectorRepo.Create gets when the context of its
\* caller is cancelled just before the call at: a call that is handed the
\* context fails at once, the others are answered as before.
CancelledCreateEnv(env, at) ==
  IF StageIndex(ResourceStages, at) <= StageIndex(ResourceStages, "scrape")
  THEN [env EXCEPT !.load = "scrape-error"] ELSE env

\* The same for questionService.Create.
CancelledQuestionEnv(env, at) ==
  LET k == StageIndex(QuestionStages, at)
  IN IF k <= StageIndex(QuestionStages, "embed") THEN [env EXCEPT !.embed = "err"]
     ELSE IF k = StageIndex(QuestionStages, "search") THEN [env EXCEPT !.queryOk = FALSE]
     ELSE IF k = StageIndex(QuestionStages, "generate")
     THEN [env EXCEPT !.llm = [err |-> TRUE, choices |-> <<>>]]
     ELSE env

(***************************************************************************)
(* Actions of the Postgres binary                                          *)
(***************************************************************************)
\* the embedding backend's answer if the call has asked for an embedding
Asked(calls, answer) ==
  IF \E c \in Range(calls) : c.call = "embed" THEN answer ELSE "unasked"

DoCreateResource ==
  /\ binary = "app"
  /\ \E b \in ResourceInputs, env \in CreateEnvs :
       LET res == ResourceVectorRepoCreate(resources, resource_embeddings, b, env)
       IN \* answers never asked for, the resource being known or without
          \* a page to load, are fixed
          /\ ((\E r \in resources : r.uuid = b.Uuid)
                \/ b.Source # "SOURCE_WEBSITE" \/ b.Path = "")
               => (env.load = "page" /\ env.split = 0)
          /\ resources' = res.resources
          /\ resource_embeddings' = res.rows
          /\ last' = [op |-> "CreateResource", b |-> b, embed |-> Asked(res.calls, env.embed),
                      env |-> env, known |-> \E r \in resources : r.uuid = b.Uuid,
                      calls |-> res.calls, err |-> res.err]
  /\ UNCHANGED <<busVars, seen, ingest, binary, duckVars, questions, question_responses, question_references>>

\* ids handed to ResourceRepo.Delete: the ids of ResourceInputs and an id
\* never recorded
DeleteIds == {b.Uuid : b \in ResourceInputs} \cup {"r0"}

DoDeleteResource ==
  /\ binary = "app"
  /\ \E id \in DeleteIds, dbOk \in BOOLEAN :
       LET res == ResourceRepoDelete(resources, resource_embeddings, question_references,
                                     id, dbOk)
       IN /\ resources' = res.resources
          /\ resource_embeddings' = res.rows
          /\ question_references' = res.references
          /\ last' = [op |-> "DeleteResource", id |-> id,
                      chunks |-> Cardinality({r \in resource_embeddings : r.resource_uuid = id}),
                      err |-> res.err]
  /\ UNCHANGED <<busVars, seen, ingest, binary, duckVars, questions, question_responses>>

DoQuery ==
  /\ binary = "app"
  /\ \E query \in Queries, limit \in Limits, answer \in PgEmbedAnswers, dbOk \in BOOLEAN :
       \E res \in Query(resource_embeddings, query, limit, answer, dbOk) :
         last' = [op |-> "Query", query |-> query, limit |-> limit, answer |-> answer,
                  dbOk |-> dbOk, results |-> res.results, err |-> res.err]
  /\ UNCHANGED <<busVars, seen, ingest, binary, duckVars, pgVars>>

DoCreateQuestion ==
  /\ binary = "app"
  /\ \E q \in QuestionInputs, env \in QuestionEnvs :
       \E res \in QuestionCreate(questions, question_responses, question_references,
                                 resource_embeddings, q, env) :
         /\ questions' = res.questions
         /\ question_responses' = res.responses
         /\ question_references' = res.references
         /\ last' = [op |-> "CreateQuestion", q |-> q, embed |-> Asked(res.calls, env.embed),
                     llmErr |-> Call("generate", 0, FALSE) \in Range(res.calls),
                     searchFailed |->
                       /\ QuestionRepoCreate(questions, q, env.repoOk).err = ""
                       /\ \A o \in Query(resource_embeddings, q.Content, TopK, env.embed,
                                          env.queryOk) : o.err # "",
                     saveOk |-> env.saveOk1 /\ env.saveOk2,
                     contexts |-> res.contexts, answer |-> res.answer,
                     calls |-> res.calls, err |-> res.err]
  /\ UNCHANGED <<busVars, seen, ingest, binary, duckVars, resources, resource_embeddings>>


(***************************************************************************)
(* Postgres backend: NewDatabase, retryConn                                *)
(***************************************************************************)
RECURSIVE RetryLoop(_, _, _)
\* for i := 0; i <= attempts; i++ { conn, err := callback(); if err == nil
\* { return conn, nil }; time.Sleep(sleep) }: the loop from counter i on.
\* outcomes[k] is what the k-th call of the callback returns.  calls counts
\* the calls made, conn is the call whose connection is returned (0: nil),
\* reported the number of attempts the error message names.
RetryLoop(attempts, outcomes, i) ==
  IF i > attempts
  THEN [conn |-> 0, calls |-> i, sleeps |-> i, failed |-> TRUE, reported |-> attempts]
  ELSE IF outcomes[i + 1] = "ok"
  THEN [conn |-> i + 1, calls |-> i + 1, sleeps |-> i, failed |-> FALSE, reported |-> 0]
  ELSE RetryLoop(attempts, outcomes, i + 1)

\* retryConn
retryConn(attempts, outcomes) == RetryLoop(attempts, outcomes, 0)

\* The answers of the callback to a retryConn(attempts, ...).  One call of
\* the callback of NewDatabase returns the connection, the error of
\* sql.Open, or the error of conn.Ping(); an answer behind the first
\* connection is never asked for and is fixed.
CallbackScripts(attempts) ==
  {o \in [1..(attempts + 1) -> {"ok", "open-error", "ping-error"}] :
     \A k \in 1..(attempts + 1) : (\E j \in 1..(k - 1) : o[j] = "ok") => o[k] = "ok"}

DoRetryConn ==
  /\ binary = "app"
  /\ \E attempts \in 0..MaxAttempts :
       \E outcomes \in CallbackScripts(attempts) :
         LET res == retryConn(attempts, outcomes)
         IN last' = [op |-> "retryConn", attempts |-> attempts, outcomes |-> outcomes,
                     conn |-> res.conn, calls |-> res.calls, sleeps |-> res.sleeps,
                     failed |-> res.failed, reported |-> res.reported, err |-> ""]
  /\ UNCHANGED <<busVars, seen, ingest, binary, duckVars, pgVars>>

\* NewDatabase: retryConn(3, 10*time.Second, ...), log.Fatal on its error.
DoNewDatabase ==
  /\ binary = "app"
  /\ \E outcomes \in CallbackScripts(NewDatabaseAttempts) :
       LET res == retryConn(NewDatabaseAttempts, outcomes)
       IN last' = [op |-> "NewDatabase", attempts |-> NewDatabaseAttempts,
                   outcomes |-> outcomes, conn |-> res.conn, calls |-> res.calls,
                   sleeps |-> res.sleeps, failed |-> res.failed,
                   reported |-> res.reported,
                   err |-> IF res.failed THEN "fatal" ELSE ""]
  /\ UNCHANGED <<busVars, seen, ingest, binary, duckVars, pgVars>>
(***************************************************************************)
(* Bus consumers of the Postgres binary: ResourceConsumer, QuestionConsumer *)
(*                                                                         *)
(* Each consumer is one goroutine running run(): it ranges over the        *)
(* channel consumer.Read() of the bus client, which decodes every payload  *)
(* of the subscription with ConvertProto.  A pipeline invocation is two    *)
(* steps, its start and its return, so that invocations could overlap if   *)
(* the loop did not wait.                                                  *)
(***************************************************************************)
Workers == {"resource", "question"}

\* payloads on the wire: bytes that do not decode, or an encoded entity
Garbage == [wellFormed |-> FALSE]

Wire(entity) == [wellFormed |-> TRUE, msg |-> entity]

Payloads(w) ==
  IF w = "resource"
  THEN {Garbage, Wire([Uuid |-> "r1", Source |-> "SOURCE_WEBSITE", Path |-> "u"])}
  ELSE {Garbage, Wire([Uuid |-> "q1", RoleDescription |-> "role", Content |-> <<"w">>])}

\* ConvertProto (resource and question): proto.Unmarshal of the payload
ConvertProto(data) ==
  IF data.wellFormed THEN [msg |-> data.msg, err |-> ""]
  ELSE [msg |-> None, err |-> "proto: cannot parse invalid wire-format data"]

\* uuid.New().String(): the k-th identity returned
Mint(k) == <<"u1", "u2", "u3", "u4", "u5", "u6">>[k]

\* run() if it kept the Uuid of the message when it carries one
NewEntityFromWire(w, i, fresh) == IF i.Uuid # "" THEN i ELSE [i EXCEPT !.Uuid = fresh]

\* The entity run() builds from the decoded message i: a new Uuid, the other
\* fields copied.
NewEntity(w, i, fresh) ==
  IF w = "resource" THEN [Uuid |-> fresh, Source |-> i.Source, Path |-> i.Path]
  ELSE [Uuid |-> fresh, RoleDescription |-> i.RoleDescription, Content |-> i.Content]

\* run() if it started each pipeline invocation without waiting for the
\* one before (go Create(...))
CanReceiveWhileCreating(w) == pc[w] \in {"read", "create"}

\* run() takes the next message when it is at the head of its range loop.
CanReceive(w) == pc[w] = "read"

\* run() if it returned from the loop on a pipeline error
AfterCreateStopOnError(err) == IF err # "" THEN "stopped" ELSE "read"

\* if err != nil { log.Println(err); continue }: back to the head of the
\* loop in either case.
AfterCreate(err) == "read"

\* the invocations of worker w started and not returned
InFlight(w) ==
  {e \in Range(events[w]) :
     /\ e.ev = "start"
     /\ ~\E r \in Range(events[w]) : r.ev = "return" /\ r.n = e.n}

\* What the outside world answers during a pipeline invocation made by a
\* consumer.
ConsumerCreateEnvs ==
  {env \in CreateEnvs :
     /\ env.load = "page" /\ env.embed = "ok"
     /\ \/ ~env.repoOk
        \/ env.split = 1 /\ env.dbOks[0]}

ConsumerQuestionEnvs ==
  {env \in QuestionEnvs :
     /\ env.repoOk /\ env.embed = "ok" /\ env.queryOk /\ env.saveOk1 /\ env.saveOk2
     /\ env.llm = [err |-> FALSE, choices |-> <<"a1">>]}

(***************************************************************************)
(* Actions of the consumers                                                *)
(***************************************************************************)
\* The bus delivers a payload to the subscription of worker w.
Deliver(w) ==
  /\ binary = "app"
  /\ Len(delivered["resource"]) + Len(delivered["question"]) < MaxMessages
  /\ \E data \in Payloads(w) : delivered' = [delivered EXCEPT ![w] = Append(@, data)]
  /\ UNCHANGED <<seen, ingest, binary, duckVars, pgVars, last, cursor, pc, events, minted>>

\* The bus client takes the next payload, ConvertProto fails on it, and the
\* client logs and goes on to the next payload.
DropUndecodable(w) ==
  /\ binary = "app"
  /\ cursor[w] < Len(delivered[w])
  /\ ConvertProto(delivered[w][cursor[w] + 1]).err # ""
  /\ cursor' = [cursor EXCEPT ![w] = @ + 1]
  /\ UNCHANGED <<seen, ingest, binary, duckVars, pgVars, last, delivered, pc, events, minted>>

\* The bus client decodes the next payload and hands the message to run()
\* over the channel; run() mints the identity and calls Create.
Receive(w) ==
  /\ binary = "app"
  /\ CanReceive(w)
  /\ cursor[w] < Len(delivered[w])
  /\ LET dec == ConvertProto(delivered[w][cursor[w] + 1])
     IN /\ dec.err = ""
        /\ events' = [events EXCEPT ![w] =
             Append(@, [ev |-> "start", n |-> cursor[w] + 1,
                        entity |-> NewEntity(w, dec.msg, Mint(minted + 1))])]
  /\ minted' = minted + 1
  /\ cursor' = [cursor EXCEPT ![w] = @ + 1]
  /\ pc' = [pc EXCEPT ![w] = "create"]
  /\ UNCHANGED <<seen, ingest, binary, duckVars, pgVars, last, delivered>>

\* resourceService.Create returns to ResourceConsumer.run.
ReturnResource ==
  /\ binary = "app"
  /\ \E e \in InFlight("resource"), env \in ConsumerCreateEnvs :
       LET res == ResourceVectorRepoCreate(resources, resource_embeddings, e.entity, env)
       IN /\ resources' = res.resources
          /\ resource_embeddings' = res.rows
          /\ events' = [events EXCEPT !["resource"] =
               Append(@, [ev |-> "return", n |-> e.n, err |-> res.err])]
          /\ pc' = [pc EXCEPT !["resource"] = AfterCreate(res.err)]
  /\ UNCHANGED <<seen, ingest, binary, duckVars, questions, question_responses, question_references,
                 last, delivered, cursor, minted>>

\* questionService.Create returns to QuestionConsumer.run.
ReturnQuestion ==
  /\ binary = "app"
  /\ \E e \in InFlight("question"), env \in ConsumerQuestionEnvs :
       \E res \in QuestionCreate(questions, question_responses, question_references,
                                 resource_embeddings, e.entity, env) :
         /\ questions' = res.questions
         /\ question_responses' = res.responses
         /\ question_references' = res.references
         /\ events' = [events EXCEPT !["question"] =
              Append(@, [ev |-> "return", n |-> e.n, err |-> res.err])]
         /\ pc' = [pc EXCEPT !["question"] = AfterCreate(res.err)]
  /\ UNCHANGED <<seen, ingest, binary, duckVars, resources, resource_embeddings, last, delivered, cursor,
                 minted>>

(***************************************************************************)
(* Pipeline invocations whose caller cancels the context                   *)
(***************************************************************************)
\* ResourceVectorRepo.Create whose caller cancels the context just before
\* the call at; every answer not forced by the cancellation is a success.
DoCreateResourceCancelled ==
  /\ binary = "app"
  /\ \E b \in ResourceInputs, env \in ConsumerCreateEnvs, at \in Range(ResourceStages) :
       LET res == ResourceVectorRepoCreate(resources, resource_embeddings, b,
                                           CancelledCreateEnv(env, at))
       IN /\ env.repoOk
          /\ resources' = res.resources
          /\ resource_embeddings' = res.rows
          /\ last' = [op |-> "CreateResourceCancelled", stages |-> ResourceStages,
                      cancelAt |-> at, calls |-> res.calls, err |-> res.err]
  /\ UNCHANGED <<busVars, seen, ingest, binary, duckVars, questions, question_responses, question_references>>

\* questionService.Create whose caller cancels the context just before the
\* call at.
DoCreateQuestionCancelled ==
  /\ binary = "app"
  /\ \E q \in QuestionInputs, env \in ConsumerQuestionEnvs, at \in Range(QuestionStages) :
       \E res \in QuestionCreate(questions, question_responses, question_references,
                                 resource_embeddings, q, CancelledQuestionEnv(env, at)) :
         /\ questions' = res.questions
         /\ question_responses' = res.responses
         /\ question_references' = res.references
         /\ last' = [op |-> "CreateQuestionCancelled", stages |-> QuestionStages,
                     cancelAt |-> at, calls |-> res.calls, err |-> res.err]
  /\ UNCHANGED <<busVars, seen, ingest, binary, duckVars, resources, resource_embeddings>>


(***************************************************************************)
(* The Resource worker and the Question worker on the shared store         *)
(***************************************************************************)
\* ResourceVectorRepo.Create up to its insert loop: the resource row, the
\* page, its chunks and their embeddings.
CreatePrepare(res, b, env) ==
  LET rc == ResourceRepoCreate(res, b, env.repoOk)
      ld == IF b.Source = "SOURCE_WEBSITE" THEN LoadWebsite(b, env.load)
            ELSE [docs |-> <<>>, err |-> "", calls |-> <<>>]
      sp == SplitText(ld.docs[1], env.split)
      em == EmbedDocuments(sp.chunks, env.embed)
      stop(r, e) == [resources |-> r, chunks |-> <<>>, vectors |-> <<>>, err |-> e]
  IN IF rc.err # "" THEN stop(res, rc.err)
     ELSE IF ld.err # "" THEN stop(rc.resources, "unable to parse content")
     ELSE IF Len(ld.docs) = 0 THEN stop(rc.resources, "")
     ELSE IF sp.err # "" THEN stop(rc.resources, sp.err)
     ELSE IF em.err # "" THEN stop(rc.resources, em.err)
     ELSE [resources |-> rc.resources, chunks |-> sp.chunks, vectors |-> em.vectors,
           err |-> ""]

\* The Resource worker runs ResourceVectorRepo.Create up to the insert loop.
BeginCreate ==
  /\ binary = "app"
  /\ ingest = None
  /\ \E b \in ResourceInputs, env \in CreateEnvs :
       LET p == CreatePrepare(resources, b, env)
       IN /\ \A i \in DOMAIN env.dbOks : env.dbOks[i]
          /\ ((\E r \in resources : r.uuid = b.Uuid)
                \/ b.Source # "SOURCE_WEBSITE" \/ b.Path = "")
               => (env.load = "page" /\ env.split = 0)
          /\ resources' = p.resources
          /\ ingest' = IF p.err = "" /\ Len(p.vectors) > 0
                       THEN [b |-> b, chunks |-> p.chunks, vectors |-> p.vectors, i |-> 0]
                       ELSE None
          /\ last' = [op |-> "CreateBegin", b |-> b, err |-> p.err]
  /\ UNCHANGED <<busVars, seen, binary, duckVars, resource_embeddings, questions,
                 question_responses, question_references>>

\* One iteration of the insert loop: one INSERT, run by Exec() on the
\* connection pool outside any transaction, so the row is committed when
\* the statement returns.  The loop ends at the first error or behind the
\* last embedding.
InsertNext ==
  /\ binary = "app"
  /\ ingest # None
  /\ \E dbOk \in BOOLEAN :
       LET ins == InsertEmbedding(resource_embeddings, resources, ingest.b.Uuid, ingest.i,
                                  ingest.chunks[ingest.i + 1], ingest.vectors[ingest.i + 1],
                                  dbOk)
       IN /\ resource_embeddings' = ins.rows
          /\ ingest' = IF ins.err # "" \/ ingest.i + 1 = Len(ingest.vectors) THEN None
                       ELSE [ingest EXCEPT !.i = @ + 1]
          /\ last' = [op |-> "CreateInsert", uuid |-> ingest.b.Uuid, i |-> ingest.i,
                      err |-> ins.err]
  /\ UNCHANGED <<busVars, seen, binary, duckVars, resources, questions, question_responses,
                 question_references>>

\* The Question worker, a goroutine of its own, reaches the retrieval of
\* questionService.Create: srv.querier.Query(con, content, 5).
WorkerQuery ==
  /\ binary = "app"
  /\ \E query \in Queries, answer \in PgEmbedAnswers, dbOk \in BOOLEAN :
       \E res \in Query(resource_embeddings, query, TopK, answer, dbOk) :
         last' = [op |-> "WorkerQuery", query |-> query, results |-> res.results,
                  err |-> res.err]
  /\ UNCHANGED <<busVars, seen, ingest, binary, duckVars, pgVars>>
(***************************************************************************)
(* Properties                                                              *)
(***************************************************************************)
\* the stored row a result of ResourceVectorRepo.Query was read from
PgRow(res) == CHOOSE r \in resource_embeddings : QueryResult(r) = res

\* the cosine distance of a result of ResourceVectorRepo.Query to the query
PgDistance(res, query) == CosineDistance(PgRow(res).embedding, PgEmbedding(query, "ok"))

\* C1: a successful similarity search returns its results most-similar
\* first: the cosine distance to the query vector never decreases from one
\* result to the next, and no stored chunk left out of the result is
\* strictly closer to the query than a returned one; on DuckDB
\* (SearchSimilar) and on pgvector (Query).
C1_MostSimilarFirst ==
  /\ (last.op = "SearchSimilar" /\ last.err = "") =>
       LET q == CastFloatList(VectorToString(last.q))
           res == last.results
       IN /\ \A i, j \in DOMAIN res : i < j => DistLeq(res[i].Similarity, res[j].Similarity)
          /\ \A r \in documents :
               (\A i \in DOMAIN res : res[i].ID # r.id)
                 => \A i \in DOMAIN res : DistLeq(res[i].Similarity, CosineDistance(r.embedding, q))
  /\ (last.op = "Query" /\ last.err = "") =>
       LET res == last.results
       IN /\ \A i, j \in DOMAIN res :
               i < j => DistLeq(PgDistance(res[i], last.query), PgDistance(res[j], last.query))
          /\ \A r \in resource_embeddings :
               (\A i \in DOMAIN res : res[i] # QueryResult(r))
                 => \A i \in DOMAIN res :
                      DistLeq(PgDistance(res[i], last.query),
                              CosineDistance(r.embedding, PgEmbedding(last.query, "ok")))

\* C2: round trip: when StoreDocument(c) has succeeded and the next call is
\* SearchSimilar with c's vector and a limit of at least 1, a successful
\* search returns c as its first result.
C2_RoundTrip ==
  [][(/\ last.op = "StoreDocument"
      /\ last.err = ""
      /\ last'.op = "SearchSimilar"
      /\ last'.q = last.doc.Vector
      /\ last'.limit >= 1
      /\ last'.err = "")
       => (Len(last'.results) >= 1 /\ last'.results[1].ID = last.doc.ID)]_vars

\* C3: a search with limit k > 0 returns at most k results, and a search
\* with k <= 0 has an outcome the same search with limit 5 can have; on
\* DuckDB (SearchSimilar) and on pgvector (Query).
C3_Limit ==
  /\ last.op = "SearchSimilar" =>
       /\ last.limit > 0 => Len(last.results) <= last.limit
       /\ last.limit <= 0 =>
            [results |-> last.results, err |-> last.err]
              \in SearchSimilar(documents, last.q, DefaultLimit, last.dbOk)
  /\ last.op = "Query" =>
       /\ last.limit > 0 => Len(last.results) <= last.limit
       /\ last.limit <= 0 =>
            \E o \in Query(resource_embeddings, last.query, DefaultLimit, last.answer, last.dbOk) :
              o.results = last.results /\ o.err = last.err

\* the call of the text-generation backend was reached and failed
GenerationFailed ==
  \/ last.op = "CreateQuestion" /\ last.llmErr
  \/ last.op = "RAGQuery" /\ Call("generate", 0, FALSE) \in Range(last.calls)

C5_AnswerPersisted ==
  (last.op = "CreateQuestion" /\ last.err = "") =>
    /\ [question_uuid |-> last.q.Uuid, response |-> last.answer.Message] \in question_responses
    /\ \A i \in DOMAIN last.answer.References :
         [question_uuid |-> last.q.Uuid, resource_uuid |-> last.answer.References[i]]
           \in question_references

\* the ingestion call has failed in its split, embed or store step
IngestStepFailed ==
  /\ last.op \in {"CreateResource", "ProcessFile"}
  /\ last.err # ""
  /\ Len(last.calls) > 0
  /\ last.calls[Len(last.calls)].call \in {"split", "embed", "store"}

\* C6: when ResourceVectorRepo.Create or ProcessFile has failed while
\* chunking, embedding or storing, the store holds no chunk of that resource
\* (file).
C6_NoChunkLeftBehind ==
  IngestStepFailed =>
    /\ last.op = "CreateResource" =>
         \A r \in resource_embeddings : r.resource_uuid # last.b.Uuid
    /\ last.op = "ProcessFile" => \A r \in documents : r.file_path # last.filePath

\* C7: in an ingestion call (ProcessFile, ResourceVectorRepo.Create) a
\* failed store of a chunk is the last external call of that call: no store
\* (and no embedding) of a later chunk follows it, and the call returns an
\* error, which is the store's error.
C7_FailFast ==
  last.op \in {"ProcessFile", "CreateResource"} =>
    \A i \in DOMAIN last.calls :
      (last.calls[i].call = "store" /\ ~last.calls[i].ok) =>
        /\ i = Len(last.calls)
        /\ last.err \in {"failed to store document", "pq: exec failed",
                         "pq: expected 384 dimensions"}

\* ProcessFile of a file of several chunks whose first store has failed.
C7_Witness ==
  /\ last.op = "ProcessFile"
  /\ last.nchunks >= 2
  /\ Call("store", 0, FALSE) \in Range(last.calls)
  /\ last.err = "failed to store document"

\* C8: GenerateEmbedding returns no error, and when the backend call fails
\* (connection error, non-200 status, undecodable or empty response) it
\* returns the fallback vector of the text.
C8_GatewayFallsBack ==
  last.op = "GenerateEmbedding" =>
    /\ last.err = ""
    /\ (last.resp.kind # "ok" \/ last.resp.embedding.n = 0)
         => last.vector = MockGenerateEmbedding(last.text).vector

\* C9: when the embedding backend is unavailable, ResourceVectorRepo.Create
\* and questionService.Create (whose retrieval calls
\* ResourceVectorRepo.Query) return no error.
C9_EmbeddingFailureAbsorbed ==
  (last.op \in {"CreateResource", "CreateQuestion"} /\ last.embed = "err") => last.err = ""

\* C10: every stored chunk has a vector of the store's dimension (768 in
\* documents, 384 in resource_embeddings), fallback vectors included; a
\* StoreDocument of a vector of another length fails, an ingestion whose
\* embedder answers with another dimension fails, and a successful
\* StoreDocument stores the vector as given.
C10_Dimensionality ==
  /\ \A r \in documents : r.embedding.n = DuckDim
  /\ \A r \in resource_embeddings : r.embedding.n = PgDim
  /\ last.op = "StoreDocument" =>
       /\ last.doc.Vector.n # DuckDim => last.err # ""
       /\ last.err = "" =>
            \E r \in documents :
              /\ r.id = last.doc.ID
              /\ r.embedding.n = last.doc.Vector.n
              /\ r.embedding.d = last.doc.Vector.d
  /\ (last.op = "CreateResource" /\ last.embed = "wrongdim") => last.err # ""

\* A fallback-sized vector has been refused by a store that holds chunks.
C10_Witness ==
  /\ last.op = "StoreDocument"
  /\ last.doc.Vector.n = MockDim
  /\ last.err # ""
  /\ documents # {}

\* C11: a successful StoreDocument leaves exactly one row with the chunk's
\* id, holding the content of that call and its vector (as the statement
\* converts it), whether or not a row with that id was stored before; the
\* rows with other ids are the same as before the call.
C11_Upsert ==
  [][(last'.op = "StoreDocument" /\ last'.err = "") =>
       LET doc == last'.doc
           same == {r \in documents' : r.id = doc.ID}
       IN /\ Cardinality(same) = 1
          /\ \A r \in same :
               /\ r.content = doc.Content
               /\ r.embedding = CastFloatList(VectorToString(doc.Vector))
          /\ {r \in documents' : r.id # doc.ID} = {r \in documents : r.id # doc.ID}]_vars

\* StoreDocument has succeeded for an id that was already stored, in a store
\* that holds chunks with other ids.
C11_Witness ==
  /\ last.op = "StoreDocument"
  /\ last.replaced
  /\ last.err = ""
  /\ \E r \in documents : r.id # last.doc.ID

\* the similarity search asked for by the latest answer call has failed
\* (SearchSimilar, or ResourceVectorRepo.Query with its query embedding)
RetrievalFailed(l) == l.op \in {"CreateQuestion", "RAGQuery"} /\ l.searchFailed

\* C12: when the similarity search of an answer call fails, the call returns
\* an error and no answer, the generation backend is not called, and no
\* response or reference row is written (questionService.Create,
\* RAGServiceImpl.Query).
C12_SearchFailurePropagates ==
  [][RetrievalFailed(last') =>
       /\ last'.err = IF last'.op = "RAGQuery" THEN "failed to search documents"
                      ELSE "failed to query contexts"
       /\ \A c \in Range(last'.calls) : c.call \notin {"generate", "save"}
       /\ last'.op = "RAGQuery" => last'.response = NoResponse
       /\ last'.op = "CreateQuestion" =>
            /\ last'.answer = NoAnswer
            /\ last'.contexts = <<>>
            /\ question_responses' = question_responses
            /\ question_references' = question_references]_vars

\* The similarity search of questionService.Create has failed over a store
\* that holds chunks.
C12_Witness ==
  /\ last.op = "CreateQuestion"
  /\ last.searchFailed
  /\ Call("search", 0, FALSE) \in Range(last.calls)
  /\ resource_embeddings # {}

\* C13: the references returned by a successful questionService.Create hold
\* no resource id twice, and hold a resource id exactly when a retrieved
\* chunk belongs to that resource.
C13_ReferencesDeduplicated ==
  (last.op = "CreateQuestion" /\ last.err = "") =>
    LET refs == last.answer.References
    IN /\ \A i, j \in DOMAIN refs : i # j => refs[i] # refs[j]
       /\ Range(refs) = {last.contexts[i].ResourceUUID : i \in DOMAIN last.contexts}

\* questionService.Create has succeeded after retrieving several chunks of
\* one resource and chunks of another resource.
C13_Witness ==
  /\ last.op = "CreateQuestion"
  /\ last.err = ""
  /\ Len(last.answer.References) = 2
  /\ Len(last.contexts) > 2


\* the pipeline invocation for the n-th payload of worker w has started
Started(w, n) == \E e \in Range(events[w]) : e.ev = "start" /\ e.n = n

\* C14: every well-formed payload delivered on a subscription is eventually
\* handed to the pipeline by its consumer, whatever undecodable payloads and
\* failed pipeline invocations came before it.
C14_LoopSurvives ==
  \A w \in Workers : \A n \in 1..MaxMessages :
    (n <= Len(delivered[w]) /\ delivered[w][n].wellFormed) ~> Started(w, n)

\* A consumer has started the invocation for its third payload after its
\* first payload failed to decode and the invocation for its second payload
\* returned an error.
C14_Witness ==
  \E w \in Workers :
    /\ Len(delivered[w]) >= 3
    /\ ~delivered[w][1].wellFormed
    /\ \E r \in Range(events[w]) : r.ev = "return" /\ r.n = 2 /\ r.err # ""
    /\ Started(w, 3)

\* C15: in the history of one consumer every start of a pipeline invocation
\* is followed directly by its own return, before any other start, and the
\* invocations are started in delivery order.
C15_Sequential ==
  \A w \in Workers :
    LET ev == events[w]
    IN /\ \A k \in DOMAIN ev :
            /\ (k % 2 = 1) => ev[k].ev = "start"
            /\ (k % 2 = 0) => ev[k].ev = "return" /\ ev[k].n = ev[k - 1].n
       /\ \A j, k \in DOMAIN ev :
            (j < k /\ ev[j].ev = "start" /\ ev[k].ev = "start") => ev[j].n < ev[k].n

\* A consumer has completed one invocation and started the next one.
C15_Witness ==
  \E w \in Workers :
    /\ Len(events[w]) >= 3
    /\ events[w][2].ev = "return"
    /\ events[w][3].ev = "start"

\* the invocations started by all consumers
Starts ==
  UNION {{<<w, e>> : e \in {x \in Range(events[w]) : x.ev = "start"}} : w \in Workers}

\* C16: the entity of every started invocation carries an identity returned
\* by uuid.New(), different from the Uuid of its wire payload; no two
\* invocations carry the same identity; and no recorded resource or question
\* carries the Uuid of a wire payload.
C16_FreshIdentity ==
  /\ \A s \in Starts :
       /\ \E k \in 1..minted : s[2].entity.Uuid = Mint(k)
       /\ s[2].entity.Uuid # delivered[s[1]][s[2].n].msg.Uuid
  /\ \A s, t \in Starts : s # t => s[2].entity.Uuid # t[2].entity.Uuid
  /\ \A w \in Workers : \A n \in DOMAIN delivered[w] :
       delivered[w][n].wellFormed =>
         /\ ~\E r \in resources : r.uuid = delivered[w][n].msg.Uuid
         /\ ~\E q \in questions : q.uuid = delivered[w][n].msg.Uuid

\* Two payloads carrying the same wire Uuid have been consumed and both
\* resources recorded.
C16_Witness ==
  /\ Cardinality(resources) >= 2
  /\ \E j, k \in DOMAIN delivered["resource"] :
       /\ j < k
       /\ delivered["resource"][j].wellFormed /\ delivered["resource"][k].wellFormed
       /\ Started("resource", j) /\ Started("resource", k)

\* the rows ProcessFile is to write for a file cut into chunks, embedded
\* with the backend answers resps
FileRows(filePath, chunks, resps) ==
  {[id |-> ChunkDocID(filePath, i), content |-> chunks[i + 1], file_path |-> filePath,
    chunk_id |-> i,
    embedding |-> CastFloatList(VectorToString(GenerateEmbedding(chunks[i + 1], resps[i]).vector))] :
     i \in 0..(Len(chunks) - 1)}

\* the rows ResourceVectorRepo.Create is to write for a page cut into chunks
ResourceRows(uuid, chunks, answer) ==
  {[resource_uuid |-> uuid, chunk_index |-> i, content |-> chunks[i + 1],
    embedding |-> EmbedDocuments(chunks, answer).vectors[i + 1]] :
     i \in 0..(Len(chunks) - 1)}

\* ResourceVectorRepo.Create recorded as l had a page to split
PageLoaded(l) ==
  /\ l.op = "CreateResource"
  /\ l.env.repoOk /\ ~l.known
  /\ l.b.Source = "SOURCE_WEBSITE" /\ l.b.Path # "" /\ l.env.load = "page"

\* C17: after a successful ingestion of a resource cut into n chunks, the
\* rows of the store that belong to the resource are exactly the n rows of
\* its chunks: row i holds the resource's id, index i, the content of chunk
\* i and the embedding computed for chunk i.
C17_ExactlyTheChunks ==
  /\ (last.op = "ProcessFile" /\ last.err = "") =>
       {r \in documents : r.file_path = last.filePath}
         = FileRows(last.filePath, FileChunks[last.words], last.resps)
  /\ (PageLoaded(last) /\ last.err = "") =>
       {r \in resource_embeddings : r.resource_uuid = last.b.Uuid}
         = ResourceRows(last.b.Uuid, SplitText("page", last.env.split).chunks, last.env.embed)

\* the number of calls named name among calls
Count(calls, name) == Cardinality({i \in DOMAIN calls : calls[i].call = name})

\* ResourceVectorRepo.Create recorded as l has recorded the resource
Recorded(l) == l.op = "CreateResource" /\ l.env.repoOk /\ ~l.known

\* the loader has no document for the resource of l: the source kind has no
\* loader, or the page loaded holds no document
NoDocuments(l) ==
  \/ l.b.Source # "SOURCE_WEBSITE"
  \/ l.b.Path # "" /\ l.env.load = "no-docs"

\* C18: a ResourceVectorRepo.Create whose loader yields no document returns
\* nil with the resource recorded, makes no call to the splitter or the
\* embedder and leaves resource_embeddings as it was.
C18_NoContentIsSuccess ==
  [][(last' # last /\ Recorded(last') /\ NoDocuments(last')) =>
       /\ last'.err = ""
       /\ \E r \in resources' : r.uuid = last'.b.Uuid
       /\ Count(last'.calls, "split") = 0
       /\ Count(last'.calls, "embed") = 0
       /\ Count(last'.calls, "store") = 0
       /\ resource_embeddings' = resource_embeddings]_vars

\* Create has returned nil for a resource of a kind without loader while the
\* store holds chunks of another resource.
C18_Witness ==
  /\ Recorded(last) /\ NoDocuments(last)
  /\ last.b.Source = "SOURCE_PDF"
  /\ last.err = ""
  /\ resource_embeddings # {}

\* loading the website of l fails: no locator, or the scraper or the HTML
\* loader fails
LoadFails(l) ==
  /\ l.b.Source = "SOURCE_WEBSITE"
  /\ l.b.Path = "" \/ l.env.load \in {"scrape-error", "load-error"}

\* C19: a ResourceVectorRepo.Create whose website cannot be loaded returns
\* an error, has asked the scraper and the HTML loader at most once each,
\* makes no call to the splitter or the embedder and leaves
\* resource_embeddings as it was.
C19_LoadFailureIsTerminal ==
  [][(last' # last /\ Recorded(last') /\ LoadFails(last')) =>
       /\ last'.err = "unable to parse content"
       /\ Count(last'.calls, "scrape") <= 1
       /\ Count(last'.calls, "load") <= 1
       /\ Count(last'.calls, "split") = 0
       /\ Count(last'.calls, "embed") = 0
       /\ Count(last'.calls, "store") = 0
       /\ resource_embeddings' = resource_embeddings]_vars

\* Create has returned an error after a failed scrape.
C19_Witness ==
  /\ Recorded(last) /\ LoadFails(last)
  /\ last.env.load = "scrape-error"
  /\ last.b.Path # ""
  /\ last.err # ""

RECURSIVE WordsOf(_)
\* the words of the chunks, concatenated in order
WordsOf(chunks) ==
  IF chunks = <<>> THEN <<>> ELSE Fields(Head(chunks)) \o WordsOf(Tail(chunks))

\* C20: ChunkText(t, n) with n > 0 returns ceil(wordCount(t) / n) chunks
\* whose words, concatenated in order, are the words of t in order.
C20_ChunkCountAndWords ==
  last.op = "ChunkText" =>
    LET wc == Len(Fields(last.text))
    IN /\ Len(last.chunks) = (wc + last.maxWords - 1) \div last.maxWords
       /\ WordsOf(last.chunks) = Fields(last.text)

\* ChunkText has cut a text with repeated blanks into several chunks, the
\* last one shorter than the others.
C20_Witness ==
  /\ last.op = "ChunkText"
  /\ Len(last.chunks) = 2
  /\ Len(Fields(last.text)) = 3
  /\ Len(last.text) > 3

\* C21: GenerateBatchEmbeddings(texts) returns one vector per text, and
\* vector i is the vector GenerateEmbedding(texts[i]) returns with the
\* backend in the same state, the fallback vector when the backend fails.
C21_BatchEqualsSingle ==
  last.op = "GenerateBatchEmbeddings" =>
    /\ Len(last.vectors) = Len(last.texts)
    /\ \A i \in DOMAIN last.texts :
         last.vectors[i]
           = GenerateEmbedding(last.texts[i],
                               EmbeddingsAnswer(last.backend, last.texts[i], DuckDim)).vector

\* the calls of l started once the context was cancelled: the calls from
\* the point of cancellation on, but for a call that was handed the
\* cancelled context and failed on it
StartedAfterCancel(l) ==
  {i \in DOMAIN l.calls :
     /\ l.calls[i].call \in Range(l.stages)
     /\ StageIndex(l.stages, l.calls[i].call) >= StageIndex(l.stages, l.cancelAt)
     /\ ~(l.calls[i].call \in TakesCallerContext(l.stages) /\ ~l.calls[i].ok)}

\* C22: a ResourceVectorRepo.Create or questionService.Create whose context
\* is cancelled before one of its external calls starts neither that call
\* nor any later one.
C22_NoCallAfterCancel ==
  last.op \in {"CreateResourceCancelled", "CreateQuestionCancelled"} =>
    StartedAfterCancel(last) = {}

C24_CheckpointThenRelease ==
  last.op = "Close" =>
    /\ \E i \in DOMAIN last.calls : last.calls[i].call = "checkpoint"
    /\ \A i, j \in DOMAIN last.calls :
         (last.calls[i].call = "checkpoint" /\ last.calls[j].call \in {"conn.Close", "db.Close"})
           => i < j
    /\ last.err = "" =>
         /\ Call("checkpoint", 0, TRUE) \in Range(last.calls)
         /\ handles.conn = "released" /\ handles.db = "released"

C26_SearchDoesNotGenerate ==
  /\ last.op = "POST /search" =>
       ~\E c \in Range(last.calls) : c.call = "generate"
  /\ (last.op = "POST /query" /\ Call("search", 0, TRUE) \in Range(last.calls)) =>
       \E c \in Range(last.calls) : c.call = "generate"

\* C27: a questionService.Create that has recorded the question, retrieved
\* no chunk and generated an answer, with the database executing the
\* inserts of SaveResponse, returns the answer with no reference and no
\* error.
C27_NoContextIsNoError ==
  (/\ last.op = "CreateQuestion"
   /\ Call("record", 0, TRUE) \in Range(last.calls)
   /\ Call("search", 0, TRUE) \in Range(last.calls)
   /\ last.contexts = <<>>
   /\ Call("generate", 0, TRUE) \in Range(last.calls)
   /\ last.saveOk) =>
    /\ last.err = ""
    /\ last.answer.References = <<>>

\* C28: a similarity query of the Question worker that runs while the
\* Resource worker ingests a Resource (the store holding no more rows than
\* the query asks for) returns either none or all of that Resource's
\* chunks, never a strict non-empty subset of them.
C28_NoneOrAllChunks ==
  (/\ last.op = "WorkerQuery"
   /\ last.err = ""
   /\ ingest # None
   /\ Cardinality(resource_embeddings) <= TopK) =>
     Cardinality({i \in DOMAIN last.results :
                    last.results[i].ResourceUUID = ingest.b.Uuid})
       \in {0, Len(ingest.chunks)}

\* C29: after ProcessDirectory has succeeded on a directory tree, for every
\* .txt file of the tree (files of different sub-directories included) and
\* every chunk index i of that file, the store holds a chunk with that
\* file's path, index i and that chunk's content: no file's chunks are
\* overwritten by another file's.
C29_EveryFileKeepsItsChunks ==
  (last.op = "ProcessDirectory" /\ last.err = "") =>
    \A path \in {p \in last.tree : IsTxt(p)} :
      \A i \in 0..(Len(FileChunks[last.words[path]]) - 1) :
        \E r \in documents :
          /\ r.file_path = path
          /\ r.chunk_id = i
          /\ r.content = FileChunks[last.words[path]][i + 1]

\* C30: retryConn invokes the connection callback at most attempts times (3
\* for NewDatabase), returns the connection of the first successful call
\* without any further call, and returns its "after N attempts" error only
\* after exactly N = attempts failed calls.
C30_AtMostAttemptsCalls ==
  LET \* the first call of the callback that returns a connection
      first == CHOOSE k \in DOMAIN last.outcomes :
                 last.outcomes[k] = "ok" /\ \A j \in 1..(k - 1) : last.outcomes[j] # "ok"
  IN last.op \in {"retryConn", "NewDatabase"} =>
       /\ last.calls <= last.attempts
       /\ ~last.failed => (last.conn = first /\ last.calls = last.conn)
       /\ last.failed => (last.reported = last.attempts /\ last.calls = last.attempts)
(***************************************************************************)
(* Specifications                                                          *)
(*                                                                         *)
(* Spec       : the operations that write a chunk store and the similarity *)
(*              searches over it.                                          *)
(* SpecAnswer : the operations that write a chunk store and the answer     *)
(*              pipelines.  The searches and RAGServiceImpl.Query change   *)
(*              no table and questionService.Create changes no chunk       *)
(*              table, so both specifications reach the same chunk stores. *)
(* SpecGateway: calls of the embedding gateway alone.                      *)
(***************************************************************************)
Init ==
  /\ binary \in {"api", "app"}
  /\ documents = {}
  /\ handles = [conn |-> "open", db |-> "open", wal |-> "flushed", closing |-> FALSE]
  /\ resources = {}
  /\ resource_embeddings = {}
  /\ questions = {}
  /\ question_responses = {}
  /\ question_references = {}
  /\ last = [op |-> "none", err |-> ""]
  /\ delivered = [w \in Workers |-> <<>>]
  /\ cursor = [w \in Workers |-> 0]
  /\ pc = [w \in Workers |-> "read"]
  /\ events = [w \in Workers |-> <<>>]
  /\ minted = 0
  /\ seen = {}
  /\ ingest = None

Next ==
  \/ DoStoreDocument
  \/ DoProcessFile
  \/ DoCreateResource
  \/ DoSearchSimilar
  \/ DoQuery

Spec == Init /\ [][Next]_vars

NextAnswer ==
  \/ DoStoreDocument
  \/ DoProcessFile
  \/ DoCreateResource
  \/ DoRAGQuery
  \/ DoCreateQuestion

SpecAnswer == Init /\ [][NextAnswer]_vars

SpecGateway == Init /\ [][DoGenerateEmbedding]_vars

SpecBatch == Init /\ [][DoGenerateBatchEmbeddings]_vars

SpecCancel == Init /\ [][DoCreateResourceCancelled \/ DoCreateQuestionCancelled]_vars

SpecDelete == Init /\ [][DoCreateResource \/ DoDeleteResource \/ DoQuery]_vars

SpecClose == Init /\ [][DoStoreDocument \/ DoProcessFile \/ DoClose]_vars

SpecMock == Init /\ [][DoMockEmbedding \/ DoGenerateEmbedding]_vars

SpecRoutes == Init /\ [][DoProcessFile \/ DoSearchRoute \/ DoQueryRoute]_vars

SpecIngest == Init /\ [][BeginCreate \/ InsertNext \/ WorkerQuery]_vars

SpecDirectory == Init /\ [][DoProcessDirectory]_vars

SpecRetry == Init /\ [][DoRetryConn \/ DoNewDatabase]_vars

SpecChunk == Init /\ [][DoChunkText]_vars

NextConsumer ==
  \/ \E w \in Workers : Deliver(w)
  \/ \E w \in Workers : DropUndecodable(w)
  \/ \E w \in Workers : Receive(w)
  \/ ReturnResource
  \/ ReturnQuestion

\* Each consumer goroutine and the bus client are scheduled, and a pipeline
\* invocation returns.
ConsumerFairness ==
  /\ \A w \in Workers : WF_vars(DropUndecodable(w)) /\ WF_vars(Receive(w))
  /\ WF_vars(ReturnResource)
  /\ WF_vars(ReturnQuestion)

SpecConsumer == Init /\ [][NextConsumer]_vars /\ ConsumerFairness
====
